---- MODULE Spec2Model ----
(***************************************************************************)
(* A model of scripts/consolidate-data.py: the per-source normalizers, the *)
(* daily merger, the correlation engine, the biomarker normalizer, the     *)
(* summary statistics and a run of main from the search for the server to  *)
(* the written document; and of scripts/import-lingo-csv.py: the parse of  *)
(* a glucose cell, the import of the rows and the statistics.              *)
(*                                                                         *)
(* Representation of Python values                                         *)
(*   str    a sequence of one-character strings, "" is << >>               *)
(*   dict   a function whose domain is the set of keys, {} is EmptyDict    *)
(*   list   a sequence                                                     *)
(*   None   None in a numeric slot, NoneObj in a string slot (TLC's        *)
(*          equality is typed, so each slot type has its own None)         *)
(*   number a fixed-point integer; the unit is stated where it is used     *)
(***************************************************************************)
EXTENDS Integers, Sequences, FiniteSets, TLC

VARIABLES
    pc,              \* position in the run of the specification at hand
    garmin,          \* raw tracker document
    whoop,           \* raw recovery-tracker document
    lingo,           \* raw glucose document
    garmin_daily,    \* process_garmin_data's result
    whoop_daily,     \* process_whoop_data's result
    glucose_daily,   \* process_lingo_data's result
    daily_data,      \* merge_daily_data's result
    correlations,    \* calculate_correlations' result
    pairs,           \* argument of pearson_correlation
    scales,          \* decimal scales of the two columns of pairs
    coef,            \* pearson_correlation's result
    range_text,      \* a biomarker's optimalRange
    bounds_out,      \* (optimal_min, optimal_max) parsed from range_text
    biomarkers_raw,  \* raw biomarker document
    biomarkers,      \* process_biomarkers' result
    summary_stats,   \* generate_summary_stats' result
    err,             \* the exception that ended the run, "" when none
    answers,         \* what a request to each port of API_PORTS meets
    probed,          \* the ports find_api_server has requested so far
    API_BASE_URL,    \* the port of the server found, None when none
    inputs,          \* the data files and the documents the server holds
    output,          \* the document main writes
    csv_rows,        \* the glucose cells of the rows of a CSV export
    stats            \* calculate_stats' result

vars == <<pc, garmin, whoop, lingo, garmin_daily, whoop_daily, glucose_daily,
          daily_data, correlations, pairs, scales, coef, range_text, bounds_out,
          biomarkers_raw, biomarkers, summary_stats, err, answers, probed,
          API_BASE_URL, inputs, output, csv_rows, stats>>

\* the raw documents, and the arguments and results of the functions that a
\* specification of one function applies
raw == <<garmin, whoop, lingo>>
unit == <<pairs, scales, coef, range_text, bounds_out>>
\* the biomarker document, its results and the summary statistics
late == <<biomarkers_raw, biomarkers, summary_stats>>
\* the search for the server, the inputs and the output of a run of main, and
\* the input and the statistics of the CSV import
outer == <<answers, probed, API_BASE_URL, inputs, output, csv_rows, stats>>

-----------------------------------------------------------------------------
(* Python values *)

None == -1000000000
NoneObj == <<"None">>
EmptyDict == [k \in {} |-> None]

\* API_PORTS = [3000, 3001, 3002]
API_PORTS == <<3000, 3001, 3002>>

\* no run of main and no import under way: a function applied on its own
Standalone ==
    /\ answers = EmptyDict /\ probed = << >> /\ API_BASE_URL = None
    /\ inputs = EmptyDict /\ output = EmptyDict
    /\ csv_rows = << >> /\ stats = EmptyDict

\* d.get(k): the value, or None when the key is missing (numeric slot)
Get(d, k) == IF k \in DOMAIN d THEN d[k] ELSE None
\* d.get(k, default)
GetD(d, k, default) == IF k \in DOMAIN d THEN d[k] ELSE default
\* d[k] = v
Put(d, k, v) == (k :> v) @@ d

\* a test for None only: 0 counts as a value
is_not_none(v) == v # None

\* a test for None only: "" counts as a value
str_is_not_none(s) == s # NoneObj

\* truth value of a number or None: None and 0 are falsy
Truthy(v) == v # None /\ v # 0
\* truth value of a str or None: None and "" are falsy
TruthyStr(s) == s # NoneObj /\ s # << >>
\* truth value of record.get(k) for a dict-valued key: missing and {} are falsy
TruthyDict(d, k) == k \in DOMAIN d /\ DOMAIN d[k] # {}

\* code point of a character
Ord(c) ==
    CASE c = " " -> 32 [] c = "-" -> 45 [] c = "." -> 46
      [] c = "0" -> 48 [] c = "1" -> 49 [] c = "2" -> 50 [] c = "3" -> 51
      [] c = "4" -> 52 [] c = "5" -> 53 [] c = "6" -> 54 [] c = "7" -> 55
      [] c = "8" -> 56 [] c = "9" -> 57 [] c = ":" -> 58 [] c = "T" -> 84
      [] c = "a" -> 97 [] c = "d" -> 100 [] c = "i" -> 105 [] c = "l" -> 108
      [] c = "n" -> 110 [] c = "v" -> 118

\* s < t for two str: the order sorted() uses
RECURSIVE StrLess(_, _)
StrLess(s_, t_) ==
    CHOOSE result \in {
        IF t = << >> THEN FALSE
        ELSE IF s = << >> THEN TRUE
        ELSE IF Head(s) = Head(t) THEN StrLess(Tail(s), Tail(t))
        ELSE Ord(Head(s)) < Ord(Head(t))
        : s \in {s_}, t \in {t_}} : TRUE

\* s[:n]
Prefix(s, n) == SubSeq(s, 1, IF Len(s) < n THEN Len(s) ELSE n)

\* a sort in descending order (sorted(..., reverse=True))
RECURSIVE sorted_reverse(_)
sorted_reverse(S_) ==
    CHOOSE result \in {
        IF S = {} THEN << >>
        ELSE LET m == CHOOSE x \in S : \A y \in S \ {x} : StrLess(y, x)
             IN  <<m>> \o sorted_reverse(S \ {m})
        : S \in {S_}} : TRUE

\* sorted(S) for a set of str
RECURSIVE sorted(_)
sorted(S_) ==
    CHOOSE result \in {
        IF S = {} THEN << >>
        ELSE LET m == CHOOSE x \in S : \A y \in S \ {x} : StrLess(x, y)
             IN  <<m>> \o sorted(S \ {m})
        : S \in {S_}} : TRUE

\* the set of sequences over S of length at most n
SeqsUpTo(S, n) == UNION {[1..k -> S] : k \in 0..n}

Range(f) == {f[i] : i \in DOMAIN f}

\* sum(x) for a list of integers
RECURSIVE SumSeq(_)
SumSeq(x) == IF x = << >> THEN 0 ELSE Head(x) + SumSeq(Tail(x))

-----------------------------------------------------------------------------
(* merge_daily_data *)

\* a merger that walks the tracker's dates only
merge_tracker_dates_only(gd, ld, wd) ==
    LET order == sorted(DOMAIN gd)
        record(date) ==
            [date    |-> date,
             garmin  |-> GetD(GetD(gd, date, EmptyDict), "garmin", EmptyDict),
             whoop   |-> GetD(GetD(wd, date, EmptyDict), "whoop", EmptyDict),
             glucose |-> GetD(GetD(ld, date, EmptyDict), "glucose", EmptyDict)]
    IN  [i \in 1..Len(order) |-> record(order[i])]

\* a merger that fills the recovery tracker's namespace of a date it has no
\* entry for from another of its dates
merge_fill_missing(gd, ld, wd) ==
    LET all_dates == DOMAIN gd \cup DOMAIN ld \cup DOMAIN wd
        order == sorted(all_dates)
        other == IF DOMAIN wd = {} THEN EmptyDict
                 ELSE wd[CHOOSE d \in DOMAIN wd : TRUE]
        record(date) ==
            [date    |-> date,
             garmin  |-> GetD(GetD(gd, date, EmptyDict), "garmin", EmptyDict),
             whoop   |-> GetD(GetD(wd, date, other), "whoop", EmptyDict),
             glucose |-> GetD(GetD(ld, date, EmptyDict), "glucose", EmptyDict)]
    IN  [i \in 1..Len(order) |-> record(order[i])]

\* a merger that keeps the dates every source has an entry for
merge_common_dates(gd, ld, wd) ==
    LET order == sorted(DOMAIN gd \cap DOMAIN ld \cap DOMAIN wd)
        record(date) ==
            [date    |-> date,
             garmin  |-> GetD(GetD(gd, date, EmptyDict), "garmin", EmptyDict),
             whoop   |-> GetD(GetD(wd, date, EmptyDict), "whoop", EmptyDict),
             glucose |-> GetD(GetD(ld, date, EmptyDict), "glucose", EmptyDict)]
    IN  [i \in 1..Len(order) |-> record(order[i])]

merge_daily_data(gd, ld, wd) ==
    LET all_dates == DOMAIN gd \cup DOMAIN ld \cup DOMAIN wd
        order == sorted(all_dates)
        record(date) ==
            [date    |-> date,
             garmin  |-> GetD(GetD(gd, date, EmptyDict), "garmin", EmptyDict),
             whoop   |-> GetD(GetD(wd, date, EmptyDict), "whoop", EmptyDict),
             glucose |-> GetD(GetD(ld, date, EmptyDict), "glucose", EmptyDict)]
    IN  [i \in 1..Len(order) |-> record(order[i])]

-----------------------------------------------------------------------------
(* Inputs of the merger: per-source mappings over a few dates *)

NDates == 4

\* "2024-01-0<c>"
Jan(c) == <<"2", "0", "2", "4", "-", "0", "1", "-", "0", c>>

\* the dates of the model, the first NDates of: 2024-01-01, -02, -03, -04,
\* 2023-12-31, 2024-01-10
DateOf(i) ==
    CASE i = 1 -> Jan("1") [] i = 2 -> Jan("2") [] i = 3 -> Jan("3")
      [] i = 4 -> Jan("4")
      [] i = 5 -> <<"2", "0", "2", "3", "-", "1", "2", "-", "3", "1">>
      [] OTHER -> <<"2", "0", "2", "4", "-", "0", "1", "-", "1", "0">>

MergeDates == {DateOf(i) : i \in 1..NDates}

\* the index of a date, to give each date's sub-record its own content
DayNo(date) == CHOOSE i \in 1..6 : DateOf(i) = date

SampleSub(ns, date) ==
    CASE ns = "garmin"  -> [steps |-> 1000 * DayNo(date)]
      [] ns = "whoop"   -> [strain |-> 10 * DayNo(date)]
      [] ns = "glucose" -> [average |-> 1000 + DayNo(date), readings |-> 4]

\* the mappings a normalizer can return over MergeDates: a date is a key or not
DailyMaps(ns) ==
    {[date \in S |-> (ns :> SampleSub(ns, date)) @@ [date |-> date]] :
        S \in SUBSET MergeDates}

InitMerge ==
    /\ pc = "merge"
    /\ garmin = EmptyDict /\ whoop = EmptyDict /\ lingo = EmptyDict
    /\ garmin_daily \in DailyMaps("garmin")
    /\ whoop_daily \in DailyMaps("whoop")
    /\ glucose_daily \in DailyMaps("glucose")
    /\ daily_data = << >> /\ correlations = EmptyDict
    /\ pairs = << >> /\ scales = <<1, 1>> /\ coef = None
    /\ range_text = << >> /\ bounds_out = <<None, None>>
    /\ biomarkers_raw = EmptyDict /\ biomarkers = << >>
    /\ summary_stats = EmptyDict
    /\ err = ""
    /\ Standalone

Merge ==
    /\ pc = "merge"
    /\ daily_data' = merge_daily_data(garmin_daily, glucose_daily, whoop_daily)
    /\ pc' = "merged"
    /\ UNCHANGED <<outer, late, raw, unit, err, garmin_daily, whoop_daily, glucose_daily,
                   correlations>>

SpecMerge == InitMerge /\ [][Merge]_vars

AllDates == DOMAIN garmin_daily \cup DOMAIN glucose_daily \cup DOMAIN whoop_daily

\* C1: the sequence returned by merge_daily_data has strictly increasing date
\* strings, and every date of the three mappings is the date of exactly one record.
C1_StrictlyIncreasingDates ==
    pc = "merged" =>
        /\ \A i, j \in 1..Len(daily_data) :
               i < j => StrLess(daily_data[i].date, daily_data[j].date)
        /\ \A d \in AllDates :
               Cardinality({i \in 1..Len(daily_data) : daily_data[i].date = d}) = 1

\* three sources overlapping on some dates only, merged into at least 3 records
C1_Witness ==
    /\ pc = "merged"
    /\ Len(daily_data) >= 3
    /\ DOMAIN garmin_daily \cap DOMAIN whoop_daily # {}
    /\ DOMAIN garmin_daily # DOMAIN glucose_daily
    /\ DOMAIN whoop_daily \ DOMAIN garmin_daily # {}

\* the sub-record of source ns in a per-source mapping, {} when the date is no key
SubOf(daily, ns, date) == IF date \in DOMAIN daily THEN daily[date][ns] ELSE EmptyDict

\* C2: merge_daily_data returns exactly one record per date of the union of the
\* three mappings' dates, and every record carries the three namespaces, the
\* namespace of a source without an entry for the date being the empty object.
C2_UnionAllNamespaces ==
    pc = "merged" =>
        /\ {daily_data[i].date : i \in 1..Len(daily_data)} = AllDates
        /\ Len(daily_data) = Cardinality(AllDates)
        /\ \A i \in 1..Len(daily_data) :
              LET r == daily_data[i] IN
              /\ DOMAIN r = {"date", "garmin", "whoop", "glucose"}
              /\ r.garmin = SubOf(garmin_daily, "garmin", r.date)
              /\ r.whoop = SubOf(whoop_daily, "whoop", r.date)
              /\ r.glucose = SubOf(glucose_daily, "glucose", r.date)

\* tracker dates 01-01..03, glucose dates 01-02..04: 4 records, the first with an
\* empty glucose, the last with an empty tracker sub-record
C2_Witness ==
    /\ pc = "merged"
    /\ DOMAIN garmin_daily = {DateOf(1), DateOf(2), DateOf(3)}
    /\ DOMAIN glucose_daily = {DateOf(2), DateOf(3), DateOf(4)}
    /\ DOMAIN whoop_daily = {}
    /\ Len(daily_data) = 4
    /\ daily_data[1].date = DateOf(1) /\ daily_data[1].glucose = EmptyDict
    /\ daily_data[1].garmin # EmptyDict
    /\ daily_data[4].date = DateOf(4) /\ daily_data[4].garmin = EmptyDict
    /\ daily_data[4].glucose # EmptyDict

-----------------------------------------------------------------------------
(* process_whoop_data *)

\* round(num / den) for num >= 0, den > 0: the nearest integer, a tie to the
\* even one (Python's round on a value that is exact in binary)
RoundHalfEven(num, den) ==
    LET q == num \div den
        r == num % den
    IN  IF 2 * r < den THEN q
        ELSE IF 2 * r > den THEN q + 1
        ELSE IF q % 2 = 0 THEN q ELSE q + 1

\* hrv_rmssd_milli is held in units of 1/10000: HrvOne is the literal 1
HrvOne == 10000
\* hrvMs is held in tenths: round(hrv_ms, 1)
HrvTenth == 1000

\* the rescaling with the comparison turned into >=
hrv_ms_ge(hrv_raw) == IF hrv_raw >= HrvOne THEN hrv_raw ELSE hrv_raw * 1000

\* hrv_ms = hrv_raw if hrv_raw > 1 else hrv_raw * 1000
hrv_ms(hrv_raw) == IF hrv_raw > HrvOne THEN hrv_raw ELSE hrv_raw * 1000

\* a new entry whatever the accumulator holds for the date
entry_fresh(daily, date, ns) == (ns :> EmptyDict) @@ [date |-> NoneObj]

\* daily[date] of the defaultdict: a missing key is created on access
Entry(daily, date, ns) ==
    IF date \in DOMAIN daily THEN daily[date]
    ELSE (ns :> EmptyDict) @@ [date |-> NoneObj]

\* daily[date]["date"] = date, and daily[date][ns] = sub
SetEntry(daily, date, ns, sub) == Put(daily, date, (ns :> sub) @@ [date |-> date])

\* date = created_at[:10] if created_at else None
DateOfRecord(record, key) ==
    LET created_at == GetD(record, key, << >>)
    IN  IF TruthyStr(created_at) THEN Prefix(created_at, 10) ELSE NoneObj

\* x, when None is not replaced by 0
or_none(v) == v

\* x or 0
OrZero(v) == IF Truthy(v) THEN v ELSE 0

\* one pass of the recovery loop
RecoveryStep(daily, record) ==
    LET date == DateOfRecord(record, "created_at") IN
    IF TruthyStr(date) /\ TruthyDict(record, "score")
    THEN LET score == record.score
             w0 == Entry(daily, date, "whoop").whoop
             w1 == Put(w0, "recoveryScore", Get(score, "recovery_score"))
             hrv_raw == Get(score, "hrv_rmssd_milli")
             w2 == IF hrv_raw # None
                   THEN Put(w1, "hrvMs", RoundHalfEven(hrv_ms(hrv_raw), HrvTenth))
                   ELSE w1
             w3 == Put(w2, "restingHeartRate", Get(score, "resting_heart_rate"))
         IN  SetEntry(daily, date, "whoop", w3)
    ELSE daily

\* milliseconds in a hundredth of an hour: round(ms / (1000 * 60 * 60), 2)
MsPerCentiHour == 36000

\* one pass of the sleep loop
SleepStep(daily, record) ==
    LET date == DateOfRecord(record, "created_at") IN
    IF TruthyStr(date) /\ TruthyDict(record, "score")
    THEN LET score == record.score
             stage_summary == GetD(score, "stage_summary", EmptyDict)
             light == OrZero(Get(stage_summary, "total_light_sleep_time_milli"))
             deep == OrZero(Get(stage_summary, "total_slow_wave_sleep_time_milli"))
             rem == OrZero(Get(stage_summary, "total_rem_sleep_time_milli"))
             total_sleep_ms == light + deep + rem
             w0 == Entry(daily, date, "whoop").whoop
             w1 == IF total_sleep_ms > 0
                   THEN Put(Put(Put(Put(w0,
                        "sleepHours", RoundHalfEven(total_sleep_ms, MsPerCentiHour)),
                        "deepSleepHours", RoundHalfEven(deep, MsPerCentiHour)),
                        "remSleepHours", RoundHalfEven(rem, MsPerCentiHour)),
                        "lightSleepHours", RoundHalfEven(light, MsPerCentiHour))
                   ELSE w0
             w2 == Put(w1, "sleepPerformance", Get(score, "sleep_performance_percentage"))
             w3 == Put(w2, "sleepEfficiency", Get(score, "sleep_efficiency_percentage"))
         IN  SetEntry(daily, date, "whoop", w3)
    ELSE daily

max2(a, b) == IF a >= b THEN a ELSE b

\* the strains of a day added up
strain_sum(current_strain, new_strain) == current_strain + new_strain

\* max(current_strain, new_strain)
strain_combine(current_strain, new_strain) == max2(current_strain, new_strain)

\* one pass of the workout loop
WorkoutStep(daily, record) ==
    LET date == DateOfRecord(record, "created_at") IN
    IF TruthyStr(date) /\ TruthyDict(record, "score")
    THEN LET score == record.score
             w0 == Entry(daily, date, "whoop").whoop
             current_strain == GetD(w0, "strain", 0)
             new_strain == OrZero(Get(score, "strain"))
         IN  SetEntry(daily, date, "whoop",
                      Put(w0, "strain", strain_combine(current_strain, new_strain)))
    ELSE daily

-----------------------------------------------------------------------------
(* process_garmin_data *)

\* date = summary.get("date")
DateField(record) == GetD(record, "date", NoneObj)

\* daily[date]["garmin"][k] = record.get(k) for each k of keys, in a record
\* whose date is not empty
CopyFields(daily, record, keys) ==
    LET date == DateField(record) IN
    IF TruthyStr(date)
    THEN LET g0 == Entry(daily, date, "garmin").garmin
             g1 == [k \in DOMAIN g0 \cup keys |->
                       IF k \in keys THEN Get(record, k) ELSE g0[k]]
         IN  SetEntry(daily, date, "garmin", g1)
    ELSE daily

\* one pass of the loop over dailySummaries that copies restingHeartRate too
SummaryStepWithHeartRate(daily, summary) ==
    CopyFields(daily, summary,
               {"steps", "calories", "activeCalories", "distance", "floors",
                "restingHeartRate", "averageStress", "bodyBattery"})

\* one pass of the loop over dailySummaries: restingHeartRate is not copied
SummaryStep(daily, summary) ==
    CopyFields(daily, summary,
               {"steps", "calories", "activeCalories", "distance", "floors",
                "averageStress", "bodyBattery"})

\* one pass of the loop over sleepData
GarminSleepStep(daily, sleep) ==
    CopyFields(daily, sleep,
               {"sleepSeconds", "deepSleepSeconds", "lightSleepSeconds",
                "remSleepSeconds", "sleepScore"})

\* one pass of the loop over weight
WeightStep(daily, weight) ==
    CopyFields(daily, weight, {"weight", "bodyFat", "muscleMass", "bmi"})

\* the entry appended to activities_by_date[date]
ActivityEntry(activity) ==
    [name      |-> GetD(activity, "name", NoneObj),
     type      |-> GetD(activity, "type", NoneObj),
     duration  |-> Get(activity, "duration"),
     distance  |-> Get(activity, "distance"),
     calories  |-> Get(activity, "calories"),
     averageHR |-> Get(activity, "averageHR"),
     maxHR     |-> Get(activity, "maxHR")]

\* activities_by_date[date]: the entries of the activities of that date, in order
RECURSIVE ActivitiesOf(_, _, _)
ActivitiesOf(activities, date, i) ==
    IF i > Len(activities) THEN << >>
    ELSE IF DateField(activities[i]) = date
         THEN <<ActivityEntry(activities[i])>> \o ActivitiesOf(activities, date, i + 1)
         ELSE ActivitiesOf(activities, date, i + 1)

\* sum(a.get(key, 0) or 0 for a in acts)
RECURSIVE SumField(_, _)
SumField(acts, key) ==
    IF acts = << >> THEN 0
    ELSE OrZero(GetD(Head(acts), key, 0)) + SumField(Tail(acts), key)

\* the loop over activities_by_date.items(), for the dates still to do
RECURSIVE ActivitiesLoop(_, _, _)
ActivitiesLoop(daily, activities, dates) ==
    IF dates = {} THEN daily
    ELSE LET date == CHOOSE d \in dates : TRUE
             acts == ActivitiesOf(activities, date, 1)
             g0 == Entry(daily, date, "garmin").garmin
             g1 == Put(Put(Put(Put(g0,
                     "activities", acts),
                     "activityCount", Len(acts)),
                     "totalActivityDuration", SumField(acts, "duration")),
                     "totalActivityCalories", SumField(acts, "calories"))
         IN  ActivitiesLoop(SetEntry(daily, date, "garmin", g1), activities,
                            dates \ {date})

-----------------------------------------------------------------------------
(* process_lingo_data *)

\* the in-range band of the daily summary: 70 <= v <= 140
GlucoseLow == 70
GlucoseHigh == 140

\* readings_by_date[date]: reading.get("value") of the readings whose timestamp
\* is not empty and starts with date, in order
RECURSIVE ReadingsOf(_, _, _)
ReadingsOf(history_, date_, i_) ==
    CHOOSE result \in {
        IF i > Len(history) THEN << >>
        ELSE LET timestamp == GetD(history[i], "timestamp", << >>)
             IN  IF TruthyStr(timestamp) /\ Prefix(timestamp, 10) = date
                 THEN <<Get(history[i], "value")>> \o ReadingsOf(history, date, i + 1)
                 ELSE ReadingsOf(history, date, i + 1)
        : history \in {history_}, date \in {date_}, i \in {i_}} : TRUE

\* the keys of readings_by_date
ReadingDates(history) ==
    {Prefix(history[i].timestamp, 10) :
        i \in {j \in 1..Len(history) :
                  TruthyStr(GetD(history[j], "timestamp", << >>))}}

SeqMin(v) == CHOOSE x \in Range(v) : \A y \in Range(v) : x <= y
SeqMax(v) == CHOOSE x \in Range(v) : \A y \in Range(v) : y <= x

\* the daily summary with a band that excludes its two ends
GlucoseSummaryStrict(values) ==
    LET in_range == Cardinality({i \in 1..Len(values) :
                                    GlucoseLow < values[i] /\ values[i] < GlucoseHigh})
    IN  [average            |-> RoundHalfEven(SumSeq(values) * 10, Len(values)),
         min                |-> SeqMin(values),
         max                |-> SeqMax(values),
         readings           |-> Len(values),
         inRange            |-> in_range,
         timeInRangePercent |-> RoundHalfEven(in_range * 1000, Len(values))]

\* the glucose sub-record of a day: average and timeInRangePercent in tenths
\* (round(., 1); exact for fewer than 16 readings a day)
GlucoseSummary(values) ==
    LET in_range == Cardinality({i \in 1..Len(values) :
                                    GlucoseLow <= values[i] /\ values[i] <= GlucoseHigh})
    IN  [average            |-> RoundHalfEven(SumSeq(values) * 10, Len(values)),
         min                |-> SeqMin(values),
         max                |-> SeqMax(values),
         readings           |-> Len(values),
         inRange            |-> in_range,
         timeInRangePercent |-> RoundHalfEven(in_range * 1000, Len(values))]

\* sum(values) raises TypeError when a reading with a timestamp has no value
LingoRaises(l) ==
    LET history == GetD(l, "history", << >>)
    IN  \E d \in ReadingDates(history) :
            None \in Range(ReadingsOf(history, d, 1))

\* the result with a zero-filled entry for the date, "" included, of every
\* reading that has no readings grouped under it
process_lingo_zero_filled(l) ==
    LET history == GetD(l, "history", << >>)
        stamped == {Prefix(GetD(history[i], "timestamp", << >>), 10) :
                       i \in 1..Len(history)}
    IN  [date \in stamped |->
            IF date \in ReadingDates(history)
            THEN [date |-> date,
                  glucose |-> GlucoseSummary(ReadingsOf(history, date, 1))]
            ELSE [date |-> date,
                  glucose |-> [average |-> 0, min |-> 0, max |-> 0, readings |-> 0,
                               inRange |-> 0, timeInRangePercent |-> 0]]]

\* the result when no reading makes sum(values) raise
process_lingo_data(l) ==
    LET history == GetD(l, "history", << >>)
    IN  [date \in ReadingDates(history) |->
            [date |-> date, glucose |-> GlucoseSummary(ReadingsOf(history, date, 1))]]

-----------------------------------------------------------------------------
(* the loops of the normalizers *)

\* the body of the loop over one list of a source document
LoopBody(list, daily, record) ==
    CASE list = "recovery"       -> RecoveryStep(daily, record)
      [] list = "sleep"          -> SleepStep(daily, record)
      [] list = "workout"        -> WorkoutStep(daily, record)
      [] list = "dailySummaries" -> SummaryStep(daily, record)
      [] list = "sleepData"      -> GarminSleepStep(daily, record)
      [] list = "weight"         -> WeightStep(daily, record)

\* for record in doc.get(list, []): ...  from the i-th record on
RECURSIVE FoldRecords(_, _, _, _)
FoldRecords(list_, daily_, records_, i_) ==
    CHOOSE result \in {
        IF i > Len(records) THEN daily
        ELSE FoldRecords(list, LoopBody(list, daily, records[i]), records, i + 1)
        : list \in {list_}, daily \in {daily_}, records \in {records_}, i \in {i_}} : TRUE

\* for record in doc.get(list, []): ...
Loop(doc, list, daily) == FoldRecords(list, daily, GetD(doc, list, << >>), 1)

process_whoop_data(w) ==
    Loop(w, "workout", Loop(w, "sleep", Loop(w, "recovery", EmptyDict)))

process_garmin_data(g) ==
    LET d2 == Loop(g, "sleepData", Loop(g, "dailySummaries", EmptyDict))
        activities == GetD(g, "activities", << >>)
        dates == {DateField(activities[i]) : i \in 1..Len(activities)}
        d3 == ActivitiesLoop(d2, activities, {d \in dates : TruthyStr(d)})
    IN  Loop(g, "weight", d3)

-----------------------------------------------------------------------------
(* Inputs of process_whoop_data *)

\* records per stream in the richer stream of a document
MaxRecs == 2

\* an ISO timestamp of day i: "<date>T<h1><h2>"
Stamp(i, h1, h2) == DateOf(i) \o <<"T", h1, h2>>

\* raw HRV values (units of 1/10000): 0.0452, 45.2, 1, 1.0001, 45.25; and null
HrvRaws == {452, 452000, HrvOne, HrvOne + 1, 452500}

RecoveryScores ==
    {[recovery_score |-> 66, hrv_rmssd_milli |-> h, resting_heart_rate |-> 55] :
        h \in HrvRaws \cup {None}}
    \cup {[hrv_rmssd_milli |-> 452000, resting_heart_rate |-> 55]}

RecoveryRecs ==
    {[created_at |-> Stamp(1, "0", "8"), score |-> sc] : sc \in RecoveryScores}
    \cup {[created_at |-> Stamp(2, "0", "8"),
           score |-> [recovery_score |-> 66, hrv_rmssd_milli |-> h,
                      resting_heart_rate |-> 55]] : h \in {HrvOne, 452000}}
    \cup {[created_at |-> << >>,
           score |-> [recovery_score |-> 66, hrv_rmssd_milli |-> 452000]],
          [score |-> [recovery_score |-> 66, hrv_rmssd_milli |-> 452000]],
          [created_at |-> Stamp(1, "0", "8")],
          [created_at |-> Stamp(1, "0", "8"), score |-> EmptyDict]}

\* strain is held in tenths: 5.0, 8.3, 0, null
WorkoutRecs ==
    {[created_at |-> st, score |-> [strain |-> x]] :
        st \in {Stamp(1, "0", "8"), Stamp(1, "1", "9"), Stamp(2, "0", "8")},
        x \in {50, 83, 0, None}}
    \cup {[created_at |-> << >>, score |-> [strain |-> 83]],
          [created_at |-> Stamp(1, "0", "8")],
          [created_at |-> Stamp(2, "0", "8"), score |-> [kilojoule |-> 900]]}

SleepRecs ==
    {[created_at |-> Stamp(1, "0", "7"),
      score |-> [stage_summary |->
                    [total_light_sleep_time_milli |-> 14400000,
                     total_slow_wave_sleep_time_milli |-> 5400000,
                     total_rem_sleep_time_milli |-> 7200000],
                 sleep_performance_percentage |-> 85,
                 sleep_efficiency_percentage |-> 90]],
     [created_at |-> Stamp(2, "0", "7"),
      score |-> [stage_summary |-> [total_light_sleep_time_milli |-> None],
                 sleep_performance_percentage |-> 70]]}

SleepLists == SeqsUpTo(SleepRecs, 1)

\* one recovery and one workout list to go with a varied other stream
FewRecoveryLists ==
    {<< >>,
     <<[created_at |-> Stamp(1, "0", "8"),
        score |-> [recovery_score |-> 66, hrv_rmssd_milli |-> 452,
                   resting_heart_rate |-> 55]]>>}
FewWorkoutLists ==
    {<< >>, <<[created_at |-> Stamp(1, "1", "9"), score |-> [strain |-> 83]]>>}

\* the recovery-tracker documents: {recovery, sleep, workout}, one stream varied
\* over all lists of up to n records; a document without some stream; the
\* empty one
WhoopDocs(n) ==
    {[recovery |-> r, sleep |-> << >>, workout |-> w] :
        r \in SeqsUpTo(RecoveryRecs, n), w \in FewWorkoutLists}
    \cup {[recovery |-> r, sleep |-> << >>, workout |-> w] :
        r \in FewRecoveryLists, w \in SeqsUpTo(WorkoutRecs, n)}
    \cup {[recovery |-> r, sleep |-> sl, workout |-> w] :
        r \in FewRecoveryLists, sl \in SleepLists, w \in FewWorkoutLists}
    \cup {[workout |-> w] : w \in SeqsUpTo(WorkoutRecs, 1)}
    \cup {EmptyDict}

InitWhoop ==
    /\ pc = "whoop"
    /\ whoop \in WhoopDocs(MaxRecs)
    /\ garmin = EmptyDict /\ lingo = EmptyDict
    /\ garmin_daily = EmptyDict /\ whoop_daily = EmptyDict
    /\ glucose_daily = EmptyDict
    /\ daily_data = << >> /\ correlations = EmptyDict
    /\ pairs = << >> /\ scales = <<1, 1>> /\ coef = None
    /\ range_text = << >> /\ bounds_out = <<None, None>>
    /\ biomarkers_raw = EmptyDict /\ biomarkers = << >>
    /\ summary_stats = EmptyDict
    /\ err = ""
    /\ Standalone

ProcessWhoop ==
    /\ pc = "whoop"
    /\ whoop_daily' = process_whoop_data(whoop)
    /\ pc' = "whoop_done"
    /\ UNCHANGED <<outer, late, raw, unit, err, garmin_daily, glucose_daily, daily_data,
                   correlations>>

SpecWhoop == InitWhoop /\ [][ProcessWhoop]_vars

\* the records of a stream that the loop takes for date d: a timestamp whose
\* first 10 characters are d, and a non-empty score
Scored(stream, d) ==
    {i \in 1..Len(stream) :
        /\ "created_at" \in DOMAIN stream[i]
        /\ Prefix(stream[i].created_at, 10) = d
        /\ "score" \in DOMAIN stream[i]
        /\ stream[i].score # EmptyDict}

SetMax(S) == CHOOSE x \in S : \A y \in S : y <= x

WhoopStampDates == {DateOf(1), DateOf(2)}

\* C8: for a recovery record with a score and a non-null raw HRV h (the last such
\* record of its date), the stored hrvMs is h rounded to 1 decimal when h > 1 and
\* h * 1000 rounded to 1 decimal when h <= 1, h = 1 included.
C8_HrvRescaled ==
    pc = "whoop_done" =>
        \A d \in WhoopStampDates :
            LET rec == GetD(whoop, "recovery", << >>)
                with_hrv == {i \in Scored(rec, d) :
                                "hrv_rmssd_milli" \in DOMAIN rec[i].score
                                /\ rec[i].score.hrv_rmssd_milli # None}
                h == rec[SetMax(with_hrv)].score.hrv_rmssd_milli
            IN  with_hrv # {} =>
                    /\ d \in DOMAIN whoop_daily
                    /\ "hrvMs" \in DOMAIN whoop_daily[d].whoop
                    /\ h > HrvOne =>
                          whoop_daily[d].whoop.hrvMs = RoundHalfEven(h, HrvTenth)
                    /\ h <= HrvOne =>
                          whoop_daily[d].whoop.hrvMs = RoundHalfEven(h * 1000, HrvTenth)

\* 0.0452 on day 1 became 45.2, and the boundary value 1 on day 2 became 1000.0
C8_Witness ==
    /\ pc = "whoop_done"
    /\ GetD(whoop, "recovery", << >>) =
          <<[created_at |-> Stamp(1, "0", "8"),
             score |-> [recovery_score |-> 66, hrv_rmssd_milli |-> 452,
                        resting_heart_rate |-> 55]],
            [created_at |-> Stamp(2, "0", "8"),
             score |-> [recovery_score |-> 66, hrv_rmssd_milli |-> HrvOne,
                        resting_heart_rate |-> 55]]>>
    /\ whoop_daily[DateOf(1)].whoop.hrvMs = 452
    /\ whoop_daily[DateOf(2)].whoop.hrvMs = 10000

\* C9: for a date with one or more workout records that carry a score, the strain
\* of that date is the maximum of the records' strain values (a missing strain
\* counting 0) whatever their order, and it is below their sum when two or more
\* of them are positive.
C9_StrainIsMax ==
    pc = "whoop_done" =>
        \A d \in WhoopStampDates :
            LET wk == GetD(whoop, "workout", << >>)
                events == Scored(wk, d)
                strain(i) == OrZero(Get(wk[i].score, "strain"))
            IN  events # {} =>
                    /\ d \in DOMAIN whoop_daily
                    /\ "strain" \in DOMAIN whoop_daily[d].whoop
                    /\ whoop_daily[d].whoop.strain = SetMax({strain(i) : i \in events})
                    /\ \A i, j \in events :
                          i # j /\ strain(i) > 0 /\ strain(j) > 0 =>
                              whoop_daily[d].whoop.strain < strain(i) + strain(j)

\* two workouts on day 1 with strain 8.3 then 5.0: the day's strain is 8.3
C9_Witness ==
    /\ pc = "whoop_done"
    /\ GetD(whoop, "workout", << >>) =
          <<[created_at |-> Stamp(1, "0", "8"), score |-> [strain |-> 50]],
            [created_at |-> Stamp(1, "1", "9"), score |-> [strain |-> 83]]>>
    /\ whoop_daily[DateOf(1)].whoop.strain = 83

-----------------------------------------------------------------------------
(* Arithmetic of pearson_correlation *)

(***************************************************************************)
(* A number of a column is the double nearest to k / q, for an integer k   *)
(* and the column's scale q: 1 for steps and recovery scores, 10 for       *)
(* round(., 1) values, 100 for round(., 2) values, 60 for duration / 60.   *)
(* Binary64 rounding is modelled bit for bit where it decides a branch:    *)
(* the deviations of a constant column from its computed mean, which the   *)
(* test denom == 0 reads.  The deviations of a column that is not constant *)
(* and the quotient are exact; the rounding to 3 decimals absorbs their    *)
(* relative error of about 1e-16.                                          *)
(***************************************************************************)

RECURSIVE Pow2(_)
Pow2(k) == IF k = 0 THEN 1 ELSE 2 * Pow2(k - 1)

RECURSIVE Pow10(_)
Pow10(k) == IF k = 0 THEN 1 ELSE 10 * Pow10(k - 1)

\* a natural number beyond 32 bits is a sequence of limbs of LimbBits bits, the
\* lowest first and the highest not 0; 0 is << >>
LimbBits == 15
LimbBase == Pow2(LimbBits)

RECURSIVE Limbs(_)
Limbs(n) == IF n = 0 THEN << >> ELSE <<n % LimbBase>> \o Limbs(n \div LimbBase)

RECURSIVE LNorm(_)
LNorm(a_) ==
    CHOOSE result \in {
        IF a = << >> \/ a[Len(a)] # 0 THEN a ELSE LNorm(SubSeq(a, 1, Len(a) - 1))
        : a \in {a_}} : TRUE

RECURSIVE LAddC(_, _, _)
LAddC(a_, b_, c_) ==
    CHOOSE result \in {
        IF a = << >> /\ b = << >> THEN Limbs(c)
        ELSE LET x == IF a = << >> THEN 0 ELSE Head(a)
                 y == IF b = << >> THEN 0 ELSE Head(b)
                 t == x + y + c
             IN  <<t % LimbBase>> \o LAddC(IF a = << >> THEN a ELSE Tail(a),
                                           IF b = << >> THEN b ELSE Tail(b),
                                           t \div LimbBase)
        : a \in {a_}, b \in {b_}, c \in {c_}} : TRUE
LAdd(a_, b_) ==
    CHOOSE result \in {
        LAddC(a, b, 0)
        : a \in {a_}, b \in {b_}} : TRUE

\* a * m for 0 <= m <= LimbBase
RECURSIVE LMulC(_, _, _)
LMulC(a_, m_, c_) ==
    CHOOSE result \in {
        IF a = << >> THEN Limbs(c)
        ELSE LET t == Head(a) * m + c
             IN  <<t % LimbBase>> \o LMulC(Tail(a), m, t \div LimbBase)
        : a \in {a_}, m \in {m_}, c \in {c_}} : TRUE
LMul(a_, m_) ==
    CHOOSE result \in {
        IF m = 0 THEN << >> ELSE LMulC(a, m, 0)
        : a \in {a_}, m \in {m_}} : TRUE

\* a[1..i] with remainder r carried in, divided by q <= LimbBase
RECURSIVE LDivFrom(_, _, _, _)
LDivFrom(a_, q_, i_, r_) ==
    CHOOSE result \in {
        IF i = 0 THEN << << >>, r >>
        ELSE LET t == r * LimbBase + a[i]
                 rest == LDivFrom(a, q, i - 1, t % q)
             IN  <<Append(rest[1], t \div q), rest[2]>>
        : a \in {a_}, q \in {q_}, i \in {i_}, r \in {r_}} : TRUE

\* <<a div q, a mod q>>
LDivMod(a_, q_) ==
    CHOOSE result \in {
        LET d == LDivFrom(a, q, Len(a), 0) IN <<LNorm(d[1]), d[2]>>
        : a \in {a_}, q \in {q_}} : TRUE

LLess(a_, b_) ==
    CHOOSE result \in {
        IF Len(a) # Len(b) THEN Len(a) < Len(b)
        ELSE \E i \in 1..Len(a) :
                a[i] < b[i] /\ \A j \in (i + 1)..Len(a) : a[j] = b[j]
        : a \in {a_}, b \in {b_}} : TRUE

\* a * 2^k and a div 2^k
LShl(a_, k_) ==
    CHOOSE result \in {
        IF a = << >> THEN a
        ELSE [i \in 1..(k \div LimbBits) |-> 0] \o LMul(a, Pow2(k % LimbBits))
        : a \in {a_}, k \in {k_}} : TRUE
LShr(a_, k_) ==
    CHOOSE result \in {
        IF Len(a) <= k \div LimbBits THEN << >>
        ELSE LDivMod(SubSeq(a, k \div LimbBits + 1, Len(a)), Pow2(k % LimbBits))[1]
        : a \in {a_}, k \in {k_}} : TRUE

RECURSIVE BitLen(_)
BitLen(n) == IF n = 0 THEN 0 ELSE 1 + BitLen(n \div 2)
LBitLen(a_) ==
    CHOOSE result \in {
        IF a = << >> THEN 0 ELSE LimbBits * (Len(a) - 1) + BitLen(a[Len(a)])
        : a \in {a_}} : TRUE

\* (each operation on limbs binds its arguments to their values, so that an
\* argument is evaluated once however often the operation refers to it)

\* binary64: 53 significant bits.  Doubles are held in units of 2^-GridBits,
\* which is exact for values from 2^-7 up
MantissaBits == 53
GridBits == 60
ExtraBits == 4

\* round to nearest, ties to even, to MantissaBits significant bits
RoundSig(a_) ==
    CHOOSE result \in {
        IF LBitLen(a) <= MantissaBits THEN a
        ELSE LET k == LBitLen(a) - MantissaBits
                 with_guard == LShr(a, k - 1)
                 guard == with_guard[1] % 2
                 rest == LShl(with_guard, k - 1) # a
                 high == LShr(a, k)
                 up == guard = 1 /\ (rest \/ high[1] % 2 = 1)
             IN  LShl(IF up THEN LAdd(high, <<1>>) ELSE high, k)
        : a \in {a_}} : TRUE

\* the double nearest to a / q, for a and the result in units of 2^-GridBits
DoubleOfQuotient(a_, q_) ==
    CHOOSE result \in {
        LET d == LDivMod(LShl(a, ExtraBits), q)
            sticky == LAdd(LMul(d[1], 2), Limbs(IF d[2] # 0 THEN 1 ELSE 0))
        IN  LShr(RoundSig(sticky), ExtraBits + 1)
        : a \in {a_}, q \in {q_}} : TRUE

\* the double nearest to k / q
Double(k, q) == DoubleOfQuotient(LShl(Limbs(k), GridBits), q)

\* sum() of n copies of the double v: left to right, each partial sum rounded
RECURSIVE FSum(_, _)
FSum(v_, n_) ==
    CHOOSE result \in {
        IF n = 0 THEN << >> ELSE RoundSig(LAdd(FSum(v, n - 1), v))
        : v \in {v_}, n \in {n_}} : TRUE

\* the sign of v - sum(n copies of v) / n for v the double nearest to k / q:
\* 0 when the computed mean of the constant column is the value itself
SignOfDifference(v_, mean_) ==
    CHOOSE result \in {
        IF v = mean THEN 0 ELSE IF LLess(mean, v) THEN 1 ELSE -1
        : v \in {v_}, mean \in {mean_}} : TRUE
DifferenceFromMean(v_, n_) ==
    CHOOSE result \in {
        SignOfDifference(v, DoubleOfQuotient(FSum(v, n), n))
        : v \in {v_}, n \in {n_}} : TRUE
NoiseSign(k, q, n) == DifferenceFromMean(Double(k, q), n)

\* a - b for a >= b
RECURSIVE LSubC(_, _, _)
LSubC(a_, b_, c_) ==
    CHOOSE result \in {
        IF a = << >> THEN << >>
        ELSE LET y == IF b = << >> THEN 0 ELSE Head(b)
                 t == Head(a) - y - c
             IN  <<IF t < 0 THEN t + LimbBase ELSE t>>
                 \o LSubC(Tail(a), IF b = << >> THEN b ELSE Tail(b), IF t < 0 THEN 1 ELSE 0)
        : a \in {a_}, b \in {b_}, c \in {c_}} : TRUE
LSub(a_, b_) ==
    CHOOSE result \in {
        LNorm(LSubC(a, b, 0))
        : a \in {a_}, b \in {b_}} : TRUE

\* a * b
RECURSIVE LMulL(_, _)
LMulL(a_, b_) ==
    CHOOSE result \in {
        IF a = << >> \/ b = << >> THEN << >>
        ELSE LAdd(LMul(a, Head(b)), LShl(LMulL(a, Tail(b)), LimbBits))
        : a \in {a_}, b \in {b_}} : TRUE

Abs(v) == IF v < 0 THEN -v ELSE v

\* sum of u[i] * w[i] over the indices where the product has the given sign
RECURSIVE DotPart(_, _, _, _)
DotPart(u_, w_, sign_, i_) ==
    CHOOSE result \in {
        IF i > Len(u) THEN << >>
        ELSE LET rest == DotPart(u, w, sign, i + 1)
                 same == (u[i] > 0 /\ w[i] > 0) \/ (u[i] < 0 /\ w[i] < 0)
                 opposite == (u[i] > 0 /\ w[i] < 0) \/ (u[i] < 0 /\ w[i] > 0)
             IN  IF (sign = 1 /\ same) \/ (sign = -1 /\ opposite)
                 THEN LAdd(LMulL(Limbs(Abs(u[i])), Limbs(Abs(w[i]))), rest)
                 ELSE rest
        : u \in {u_}, w \in {w_}, sign \in {sign_}, i \in {i_}} : TRUE

\* the largest k + 2^b + ... with k * k * P <= T2, trying the bits b, b-1, ..., 0
RECURSIVE FloorRoot(_, _, _, _)
FloorRoot(P_, T2_, k_, b_) ==
    CHOOSE result \in {
        IF b < 0 THEN k
        ELSE LET k1 == k + Pow2(b)
             IN  FloorRoot(P, T2,
                           IF LLess(T2, LMul(LMul(P, k1), k1)) THEN k ELSE k1, b - 1)
        : P \in {P_}, T2 \in {T2_}, k \in {k_}, b \in {b_}} : TRUE

\* the highest bit tried for a coefficient in thousandths
RootBits == 13

\* round(N / sqrt(P), 3) in thousandths, for the magnitude N of the numerator and
\* P the product of the two sums of squares
\* f or f + 1, whichever is nearer to the root of T2 / P, a tie to the even one:
\* c is (2f + 1)^2 * P and four is 4 * T2
NearestOf(f_, c_, four_) ==
    CHOOSE result \in {
        IF LLess(c, four) THEN f + 1
        ELSE IF c = four THEN (IF f % 2 = 0 THEN f ELSE f + 1)
        ELSE f
        : f \in {f_}, c \in {c_}, four \in {four_}} : TRUE
NearestRoot(P_, T2_, f_) ==
    CHOOSE result \in {
        NearestOf(f, LMul(LMul(P, 2 * f + 1), 2 * f + 1), LMul(T2, 4))
        : P \in {P_}, T2 \in {T2_}, f \in {f_}} : TRUE
RoundedRoot(P_, T2_) ==
    CHOOSE result \in {
        NearestRoot(P, T2, FloorRoot(P, T2, 0, RootBits))
        : P \in {P_}, T2 \in {T2_}} : TRUE
RoundedQuotient(N_, P_) ==
    CHOOSE result \in {
        RoundedRoot(P, LMulL(LMulL(N, N), Limbs(1000000)))
        : N \in {N_}, P \in {P_}} : TRUE

\* the column c of a list of pairs
Column(ps, c) == [i \in 1..Len(ps) |-> ps[i][c]]

\* x[i] - mean_x for each i, up to a positive factor common to the column:
\* n * x[i] - sum(x), and for a constant column the sign of the rounding error
\* of its computed mean
Deviations(x_, q_) ==
    CHOOSE result \in {
        LET n == Len(x)
            total == SumSeq(x)
        IN  IF \A i \in 1..n : x[i] = x[1]
            THEN LET e == NoiseSign(x[1], q, n) IN [i \in 1..n |-> e]
            ELSE [i \in 1..n |-> n * x[i] - total]
        : x \in {x_}, q \in {q_}} : TRUE

\* the covariance over the variance of y (the slope of the regression of x on
\* y) in place of the coefficient
slope(pos, neg, denom_x2, denom_y2) ==
    IF denom_x2 = << >> \/ denom_y2 = << >> THEN None
    ELSE (IF LLess(pos, neg) THEN -1 ELSE 1)
         * RoundedQuotient(IF LLess(pos, neg) THEN LSub(neg, pos) ELSE LSub(pos, neg),
                           LMulL(denom_y2, denom_y2))

\* None if denom_x == 0 or denom_y == 0, else
\* round(numerator / (denom_x * denom_y), 3) in thousandths, for the numerator
\* pos - neg and the squares of the two denominators
coefficient(pos, neg, denom_x2, denom_y2) ==
    IF denom_x2 = << >> \/ denom_y2 = << >> THEN None
    ELSE (IF LLess(pos, neg) THEN -1 ELSE 1)
         * RoundedQuotient(IF LLess(pos, neg) THEN LSub(neg, pos) ELSE LSub(pos, neg),
                           LMulL(denom_x2, denom_y2))

\* the numerator and the denominators from the deviations of the two columns
CoefficientOf(dx_, dy_) ==
    CHOOSE result \in {
        coefficient(DotPart(dx, dy, 1, 1), DotPart(dx, dy, -1, 1),
                    DotPart(dx, dx, 1, 1), DotPart(dy, dy, 1, 1))
        : dx \in {dx_}, dy \in {dy_}} : TRUE

\* pearson_correlation(pairs) for pairs of numbers k / q[1], k / q[2]: None, or
\* the coefficient in thousandths
pearson_correlation(ps, q) ==
    IF Len(ps) < 3 THEN None
    ELSE CoefficientOf(Deviations(Column(ps, 1), q[1]),
                       Deviations(Column(ps, 2), q[2]))

-----------------------------------------------------------------------------
(* pearson_correlation applied to lists of pairs *)

MaxPairs == 3

\* x values (step counts) and y values (hours in hundredths, or whole numbers)
PearsonXs == {1000, 2000, 3000}
PearsonYs == {135, 140}
\* the denominators of the two columns
PearsonScales == {<<1, 100>>, <<1, 1>>, <<100, 100>>}

InitPearson ==
    /\ pc = "pearson"
    /\ pairs \in SeqsUpTo(PearsonXs \X PearsonYs, MaxPairs)
    /\ scales \in PearsonScales
    /\ coef = None
    /\ garmin = EmptyDict /\ whoop = EmptyDict /\ lingo = EmptyDict
    /\ garmin_daily = EmptyDict /\ whoop_daily = EmptyDict
    /\ glucose_daily = EmptyDict
    /\ daily_data = << >> /\ correlations = EmptyDict
    /\ range_text = << >> /\ bounds_out = <<None, None>>
    /\ biomarkers_raw = EmptyDict /\ biomarkers = << >>
    /\ summary_stats = EmptyDict
    /\ err = ""
    /\ Standalone

Pearson ==
    /\ pc = "pearson"
    /\ coef' = pearson_correlation(pairs, scales)
    /\ pc' = "pearson_done"
    /\ UNCHANGED <<outer, late, raw, garmin_daily, whoop_daily, glucose_daily, daily_data,
                   correlations, pairs, scales, range_text, bounds_out, err>>

SpecPearson == InitPearson /\ [][Pearson]_vars

ConstantColumn(ps, c) == \A i \in 1..Len(ps) : ps[i][c] = ps[1][c]

\* C4: pearson_correlation returns null exactly when there are fewer than 3
\* pairs, or all x values are equal, or all y values are equal, and a number in
\* every other case
C4_NullIffDegenerate ==
    pc = "pearson_done" =>
        ((coef = None) <=> (\/ Len(pairs) < 3
                            \/ ConstantColumn(pairs, 1)
                            \/ ConstantColumn(pairs, 2)))

\* C5: a non-null coefficient of pearson_correlation lies in [-1, 1]
C5_CoefficientInUnitInterval ==
    (pc = "pearson_done" /\ coef # None) => (-1000 <= coef /\ coef <= 1000)

\* a coefficient strictly between 0 and 1 in absolute value has been returned
C5_Witness ==
    /\ pc = "pearson_done"
    /\ coef # None
    /\ coef \notin {-1000, 0, 1000}

-----------------------------------------------------------------------------
(* calculate_correlations *)

\* the seven lists of pairs: the name, where x and y are read in a daily record,
\* the denominators of the two values (steps and scores are whole numbers, hours
\* are in hundredths, averages and HRV in tenths, and activity_duration / 60 is
\* seconds over 60), and the description
PairSpecs ==
    << [name |-> "steps_vs_sleep",
        xns |-> "garmin", xkey |-> "steps", qx |-> 1,
        yns |-> "whoop", ykey |-> "sleepHours", qy |-> 100,
        description |-> "Correlation between daily steps and sleep duration"],
       [name |-> "steps_vs_glucose",
        xns |-> "garmin", xkey |-> "steps", qx |-> 1,
        yns |-> "glucose", ykey |-> "average", qy |-> 10,
        description |-> "Correlation between daily steps and average glucose"],
       [name |-> "sleep_vs_glucose",
        xns |-> "whoop", xkey |-> "sleepHours", qx |-> 100,
        yns |-> "glucose", ykey |-> "average", qy |-> 10,
        description |-> "Correlation between sleep duration and average glucose"],
       [name |-> "exercise_vs_glucose",
        xns |-> "garmin", xkey |-> "totalActivityDuration", qx |-> 60,
        yns |-> "glucose", ykey |-> "average", qy |-> 10,
        description |->
          "Correlation between exercise duration (minutes) and average glucose"],
       [name |-> "sleep_vs_recovery",
        xns |-> "whoop", xkey |-> "sleepHours", qx |-> 100,
        yns |-> "whoop", ykey |-> "recoveryScore", qy |-> 1,
        description |->
          "Correlation between sleep duration and Whoop recovery score"],
       [name |-> "hrv_vs_sleep",
        xns |-> "whoop", xkey |-> "hrvMs", qx |-> 10,
        yns |-> "whoop", ykey |-> "sleepHours", qy |-> 100,
        description |-> "Correlation between HRV and sleep duration"],
       [name |-> "steps_vs_recovery",
        xns |-> "garmin", xkey |-> "steps", qx |-> 1,
        yns |-> "whoop", ykey |-> "recoveryScore", qy |-> 1,
        description |->
          "Correlation between daily steps and Whoop recovery score"] >>

\* record.get(ns, {}).get(key)
ValueOf(record, ns, key) == Get(GetD(record, ns, EmptyDict), key)

\* the list of pairs of p after the loop over daily_data[i..]
RECURSIVE Observations(_, _, _)
Observations(daily, p, i) ==
    IF i > Len(daily) THEN << >>
    ELSE LET x == ValueOf(daily[i], p.xns, p.xkey)
             y == ValueOf(daily[i], p.yns, p.ykey)
         IN  IF Truthy(x) /\ Truthy(y)
             THEN << <<x, y>> >> \o Observations(daily, p, i + 1)
             ELSE Observations(daily, p, i + 1)

CorrelationEntry(daily, p) ==
    LET obs == Observations(daily, p, 1)
    IN  [correlation |-> pearson_correlation(obs, <<p.qx, p.qy>>),
         dataPoints  |-> Len(obs),
         description |-> p.description]

\* the returned mapping without its last entry
calculate_correlations_six(daily) ==
    [name \in {PairSpecs[j].name : j \in 1..6} |->
        CorrelationEntry(daily,
            PairSpecs[CHOOSE j \in 1..6 : PairSpecs[j].name = name])]

calculate_correlations(daily) ==
    [name \in {PairSpecs[j].name : j \in 1..7} |->
        CorrelationEntry(daily,
            PairSpecs[CHOOSE j \in 1..7 : PairSpecs[j].name = name])]

\* a correlation pass that consumes the first merged record
correlate_consuming ==
    /\ pc = "merged"
    /\ correlations' = calculate_correlations(daily_data)
    /\ daily_data' = IF daily_data = << >> THEN daily_data ELSE Tail(daily_data)
    /\ pc' = "correlated"
    /\ UNCHANGED <<outer, late, raw, unit, err, garmin_daily, whoop_daily, glucose_daily>>

\* main: correlations = calculate_correlations(daily_data)
Correlate ==
    /\ pc = "merged"
    /\ correlations' = calculate_correlations(daily_data)
    /\ pc' = "correlated"
    /\ UNCHANGED <<outer, late, raw, unit, err, garmin_daily, whoop_daily, glucose_daily,
                   daily_data>>

-----------------------------------------------------------------------------
(* calculate_correlations applied to merged daily sequences *)

MaxDays == 3

\* the shapes of the merged record of day i: every value present and varying
\* from day to day; zeros; nulls and an empty namespace; one tracker only; the
\* same values every day; a recovery without a sleep
GlucoseOf(average) ==
    [average |-> average, min |-> 70, max |-> 150, readings |-> 4, inRange |-> 3,
     timeInRangePercent |-> 750]

DayShapes(i) ==
    { [date |-> DateOf(i),
       garmin |-> [steps |-> 1000 * i * i, totalActivityDuration |-> 1800 * i],
       whoop |-> [sleepHours |-> 600 + 35 * ((i * i) % 5),
                  recoveryScore |-> 40 + ((17 * i) % 50),
                  hrvMs |-> 400 + 27 * i],
       glucose |-> GlucoseOf(900 + ((37 * i) % 100))],
      [date |-> DateOf(i),
       garmin |-> [steps |-> 0, totalActivityDuration |-> 0],
       whoop |-> [sleepHours |-> 0, recoveryScore |-> 0, hrvMs |-> 452],
       glucose |-> GlucoseOf(1000)],
      [date |-> DateOf(i),
       garmin |-> [steps |-> None, totalActivityDuration |-> 3600],
       whoop |-> [sleepHours |-> 735, recoveryScore |-> None],
       glucose |-> EmptyDict],
      [date |-> DateOf(i),
       garmin |-> [steps |-> 5000 + i],
       whoop |-> EmptyDict,
       glucose |-> EmptyDict],
      [date |-> DateOf(i),
       garmin |-> [steps |-> 4000, totalActivityDuration |-> 1500],
       whoop |-> [sleepHours |-> 735, recoveryScore |-> 60, hrvMs |-> 452],
       glucose |-> GlucoseOf(1000)],
      [date |-> DateOf(i),
       garmin |-> [steps |-> 7000 - 500 * i],
       whoop |-> [recoveryScore |-> 90 - 7 * i, hrvMs |-> 0],
       glucose |-> GlucoseOf(1100 - 10 * i)] }

\* the merged sequences of n days, in date order
RECURSIVE DailySeqs(_)
DailySeqs(n) ==
    IF n = 0 THEN {<< >>}
    ELSE {Append(d, r) : d \in DailySeqs(n - 1), r \in DayShapes(n)}

InitCorr ==
    /\ pc = "merged"
    /\ daily_data \in UNION {DailySeqs(n) : n \in 0..MaxDays}
    /\ correlations = EmptyDict
    /\ garmin = EmptyDict /\ whoop = EmptyDict /\ lingo = EmptyDict
    /\ garmin_daily = EmptyDict /\ whoop_daily = EmptyDict
    /\ glucose_daily = EmptyDict
    /\ pairs = << >> /\ scales = <<1, 1>> /\ coef = None
    /\ range_text = << >> /\ bounds_out = <<None, None>>
    /\ biomarkers_raw = EmptyDict /\ biomarkers = << >>
    /\ summary_stats = EmptyDict
    /\ err = ""
    /\ Standalone

SpecCorr == InitCorr /\ [][Correlate]_vars

\* the value is present in the namespace of the record, not null and not 0
PresentNonZero(record, ns, key) ==
    /\ ns \in DOMAIN record
    /\ key \in DOMAIN record[ns]
    /\ record[ns][key] # None
    /\ record[ns][key] # 0

\* the records in which both values of the pair p are present and non-zero
Contributing(p) ==
    {i \in 1..Len(daily_data) :
        /\ PresentNonZero(daily_data[i], p.xns, p.xkey)
        /\ PresentNonZero(daily_data[i], p.yns, p.ykey)}

\* C6: for each of the seven pairs, dataPoints is the number of daily records
\* in which both values are present, not null and not 0
C6_DataPointsCountBothPresent ==
    pc = "correlated" =>
        \A j \in 1..7 :
            correlations[PairSpecs[j].name].dataPoints
                = Cardinality(Contributing(PairSpecs[j]))

\* a day with a zero, a day with a null and full days together: the zero and
\* the null are left out
C6_Witness ==
    /\ pc = "correlated"
    /\ Len(daily_data) = 3
    /\ \E i \in 1..3 : ValueOf(daily_data[i], "garmin", "steps") = 0
    /\ \E i \in 1..3 : ValueOf(daily_data[i], "garmin", "steps") = None
    /\ correlations["steps_vs_sleep"].dataPoints = 1

PairNames ==
    {"steps_vs_sleep", "steps_vs_glucose", "sleep_vs_glucose",
     "exercise_vs_glucose", "sleep_vs_recovery", "hrv_vs_sleep",
     "steps_vs_recovery"}

\* C7: calculate_correlations returns exactly the seven named entries, each
\* with a coefficient (possibly null), a sample count and its description
C7_SevenEntries ==
    pc = "correlated" =>
        /\ DOMAIN correlations = PairNames
        /\ \A j \in 1..7 :
              LET e == correlations[PairSpecs[j].name]
              IN  /\ DOMAIN e = {"correlation", "dataPoints", "description"}
                  /\ e.correlation = None \/ e.correlation \in -1000..1000
                  /\ e.dataPoints \in 0..Len(daily_data)
                  /\ e.description = PairSpecs[j].description

\* the empty sequence gives seven entries with null coefficients
C7_Witness ==
    /\ pc = "correlated"
    /\ daily_data = << >>
    /\ Cardinality(DOMAIN correlations) = 7
    /\ \A n \in DOMAIN correlations : correlations[n].correlation = None

-----------------------------------------------------------------------------
(* process_biomarkers: the optimal range of a biomarker *)

\* s.replace(" ", "")
RECURSIVE RemoveSpaces(_)
RemoveSpaces(s_) ==
    CHOOSE result \in {
        IF s = << >> THEN << >>
        ELSE IF Head(s) = " " THEN RemoveSpaces(Tail(s))
        ELSE <<Head(s)>> \o RemoveSpaces(Tail(s))
        : s \in {s_}} : TRUE

\* s.split("-"): the parts between the hyphens, one more than the hyphens
RECURSIVE Split(_)
Split(s_) ==
    CHOOSE result \in {
        IF "-" \notin Range(s) THEN <<s>>
        ELSE LET i == CHOOSE j \in 1..Len(s) :
                         s[j] = "-" /\ \A k \in 1..(j - 1) : s[k] # "-"
             IN  <<SubSeq(s, 1, i - 1)>> \o Split(SubSeq(s, i + 1, Len(s)))
        : s \in {s_}} : TRUE

Digits == {"0", "1", "2", "3", "4", "5", "6", "7", "8", "9"}

\* float(s) does not raise, for s of digits, points and letters that spell no
\* float: digits with at most one point among them, and at least one digit
IsFloatText(s) ==
    /\ \A i \in 1..Len(s) : s[i] \in Digits \cup {"."}
    /\ \E i \in 1..Len(s) : s[i] \in Digits
    /\ Cardinality({i \in 1..Len(s) : s[i] = "."}) <= 1

\* the decimals kept of a float: thousandths
FloatScale == 1000

\* the number the digits of s spell
RECURSIVE DigitsValue(_)
DigitsValue(s_) ==
    CHOOSE result \in {
        IF s = << >> THEN 0
        ELSE 10 * DigitsValue(SubSeq(s, 1, Len(s) - 1)) + (Ord(s[Len(s)]) - Ord("0"))
        : s \in {s_}} : TRUE

\* float(s) in units of 1 / FloatScale, for a text with IsFloatText
FloatOf(s_) ==
    CHOOSE result \in {
        LET point == IF "." \in Range(s) THEN CHOOSE i \in 1..Len(s) : s[i] = "."
                     ELSE Len(s) + 1
            decimals == SubSeq(s, point + 1, Len(s))
        IN  DigitsValue(SubSeq(s, 1, point - 1)) * FloatScale
            + (DigitsValue(decimals) * FloatScale) \div Pow10(Len(decimals))
        : s \in {s_}} : TRUE

\* float(part) if part else None
FloatOrNone(part) == IF part = << >> THEN None ELSE FloatOf(part)

\* float(part) raises ValueError
FloatRaises(part) == part # << >> /\ ~IsFloatText(part)

\* the two assignments under the try: the first float() that raises leaves the
\* bounds as they are at that point
BoundsOfParts(parts_) ==
    CHOOSE result \in {
        IF Len(parts) # 2 THEN <<None, None>>
        ELSE IF FloatRaises(parts[1]) THEN <<None, None>>
        ELSE IF FloatRaises(parts[2]) THEN <<FloatOrNone(parts[1]), None>>
        ELSE <<FloatOrNone(parts[1]), FloatOrNone(parts[2])>>
        : parts \in {parts_}} : TRUE

\* (optimal_min, optimal_max) of a biomarker with the optimalRange text
optimal_bounds(optimal_range) ==
    IF TruthyStr(optimal_range) /\ "-" \in Range(optimal_range)
    THEN BoundsOfParts(Split(RemoveSpaces(optimal_range)))
    ELSE <<None, None>>

\* the longest range text drawn from RangeChars
MaxRangeLen == 4

RangeChars == {"7", "0", ".", "-", " ", "a"}

\* "70-99", "70 - 99", "invalid"
RangeTexts ==
    SeqsUpTo(RangeChars, MaxRangeLen)
    \cup {<<"7", "0", "-", "9", "9">>,
          <<"7", "0", " ", "-", " ", "9", "9">>,
          <<"i", "n", "v", "a", "l", "i", "d">>}

InitBio ==
    /\ pc = "biomarker"
    /\ range_text \in RangeTexts
    /\ bounds_out = <<None, None>>
    /\ garmin = EmptyDict /\ whoop = EmptyDict /\ lingo = EmptyDict
    /\ garmin_daily = EmptyDict /\ whoop_daily = EmptyDict
    /\ glucose_daily = EmptyDict
    /\ daily_data = << >> /\ correlations = EmptyDict
    /\ pairs = << >> /\ scales = <<1, 1>> /\ coef = None
    /\ biomarkers_raw = EmptyDict /\ biomarkers = << >>
    /\ summary_stats = EmptyDict
    /\ err = ""
    /\ Standalone

\* one pass of the loop over a category's biomarkers, up to the bounds
ParseRange ==
    /\ pc = "biomarker"
    /\ bounds_out' = optimal_bounds(range_text)
    /\ pc' = "biomarker_done"
    /\ UNCHANGED <<outer, late, raw, garmin_daily, whoop_daily, glucose_daily, daily_data,
                   correlations, pairs, scales, coef, range_text, err>>

SpecBio == InitBio /\ [][ParseRange]_vars

\* the text without its spaces is <min>-<max> with two numeric parts
WellFormedRange(text) ==
    LET t == RemoveSpaces(text) IN
    \E i \in 1..Len(t) :
        /\ t[i] = "-"
        /\ IsFloatText(SubSeq(t, 1, i - 1))
        /\ IsFloatText(SubSeq(t, i + 1, Len(t)))

\* C10: a range text that is not a well-formed <min>-<max> with two numeric
\* parts yields optimalMin and optimalMax both null, never one bound set and
\* the other null
C10_MalformedBothNull ==
    pc = "biomarker_done" =>
        /\ ~WellFormedRange(range_text) => bounds_out = <<None, None>>
        /\ (bounds_out[1] = None) <=> (bounds_out[2] = None)

-----------------------------------------------------------------------------
(* process_biomarkers: the flat list of results *)

\* a bool or None in a slot of its own: True, False, None
PyTrue == "True"
PyFalse == "False"
PyNone == "None"
PyBool(b) == IF b THEN PyTrue ELSE PyFalse

\* in_range when a bound that is unknown counts as a failed comparison
in_range_false_if_unknown(value, optimal_min, optimal_max) ==
    PyBool(/\ optimal_min # None /\ optimal_max # None
           /\ optimal_min <= value /\ value <= optimal_max)

\* in_range of a value: None unless both bounds are known; value and bounds in
\* units of 1 / FloatScale
in_range(value, optimal_min, optimal_max) ==
    IF optimal_min # None /\ optimal_max # None
    THEN PyBool(optimal_min <= value /\ value <= optimal_max)
    ELSE PyNone

\* biomarker.get("measurements", []) or biomarker.get("results", [])
MeasurementsOf(biomarker) ==
    IF GetD(biomarker, "measurements", << >>) # << >>
    THEN biomarker.measurements
    ELSE GetD(biomarker, "results", << >>)

\* the dict appended for one measurement with a value
ResultOf(measurement, value, category_name, biomarker, optimal_range, bounds) ==
    [date |-> GetD(measurement, "date", NoneObj),
     category |-> category_name,
     biomarker |-> GetD(biomarker, "name", NoneObj),
     value |-> value,
     unit |-> GetD(biomarker, "unit", NoneObj),
     optimalRange |-> optimal_range,
     optimalMin |-> bounds[1],
     optimalMax |-> bounds[2],
     inRange |-> in_range(value, bounds[1], bounds[2]),
     provider |-> GetD(measurement, "provider", NoneObj)]

\* the loop over a biomarker's measurements: one without a value is skipped
RECURSIVE MeasurementLoop(_, _, _, _, _)
MeasurementLoop(measurements_, category_name_, biomarker_, optimal_range_, bounds_) ==
    CHOOSE result \in {
        IF measurements = << >> THEN << >>
        ELSE (IF Get(Head(measurements), "value") # None
              THEN <<ResultOf(Head(measurements), Get(Head(measurements), "value"),
                              category_name, biomarker, optimal_range, bounds)>>
              ELSE << >>)
             \o MeasurementLoop(Tail(measurements), category_name, biomarker,
                                optimal_range, bounds)
        : measurements \in {measurements_}, category_name \in {category_name_}, biomarker \in {biomarker_}, optimal_range \in {optimal_range_}, bounds \in {bounds_}} : TRUE

\* one pass of the loop over a category's biomarkers
BiomarkerPass(category_name, biomarker, optimal_range) ==
    MeasurementLoop(MeasurementsOf(biomarker), category_name, biomarker,
                    optimal_range, optimal_bounds(optimal_range))

RECURSIVE BiomarkerLoop(_, _)
BiomarkerLoop(category_name_, list_) ==
    CHOOSE result \in {
        IF list = << >> THEN << >>
        ELSE BiomarkerPass(category_name, Head(list),
                           GetD(Head(list), "optimalRange", << >>))
             \o BiomarkerLoop(category_name, Tail(list))
        : category_name \in {category_name_}, list \in {list_}} : TRUE

RECURSIVE CategoryLoop(_)
CategoryLoop(categories_) ==
    CHOOSE result \in {
        IF categories = << >> THEN << >>
        ELSE BiomarkerLoop(GetD(Head(categories), "name", NoneObj),
                           GetD(Head(categories), "biomarkers", << >>))
             \o CategoryLoop(Tail(categories))
        : categories \in {categories_}} : TRUE

process_biomarkers(doc) == CategoryLoop(GetD(doc, "categories", << >>))

\* the most measurements of one biomarker
MaxMeasurements == 2

\* measured values in units of 1 / FloatScale: below, at and above the bounds
\* of "70-99", and null
MeasuredValues == {None, 69000, 70000, 85000, 99000, 100000}

LabDate == <<"2", "0", "2", "4", "-", "0", "3", "-", "0", "1">>

\* measurements with a value or a null value, and one without the key
Measurements ==
    {[date |-> LabDate, value |-> v, provider |-> <<"l", "a", "b">>] :
        v \in MeasuredValues}
    \cup {[date |-> LabDate]}

\* "70-99", "70 - 99", "70-", "-99", "", "7-a", "invalid", null
OptimalRanges ==
    {<<"7", "0", "-", "9", "9">>, <<"7", "0", " ", "-", " ", "9", "9">>,
     <<"7", "0", "-">>, <<"-", "9", "9">>, << >>, <<"7", "-", "a">>,
     <<"i", "n", "v", "a", "l", "i", "d">>, NoneObj}

Glucose == <<"G", "l", "u">>
MgDl == <<"m", "g", "/", "d", "L">>

\* biomarkers with their measurements under "measurements", under "results"
\* with an empty "measurements", or under "results" and without a range
Biomarkers(n) ==
    {[name |-> Glucose, unit |-> MgDl, optimalRange |-> r, measurements |-> ms] :
        r \in OptimalRanges, ms \in SeqsUpTo(Measurements, n)}
    \cup {[name |-> Glucose, unit |-> MgDl, optimalRange |-> <<"7", "0", "-", "9", "9">>,
           measurements |-> << >>, results |-> ms] :
             ms \in SeqsUpTo(Measurements, n)}
    \cup {[name |-> Glucose, results |-> ms] : ms \in SeqsUpTo(Measurements, n)}

Metabolic == <<"M", "e", "t">>

\* documents of one category with one biomarker, the empty document, and a
\* document of two categories, the first with two biomarkers
BiomarkerDocs(n) ==
    {[categories |-> <<[name |-> Metabolic, biomarkers |-> <<b>>]>>] :
        b \in Biomarkers(n)}
    \cup {EmptyDict,
          [categories |->
            <<[name |-> Metabolic,
               biomarkers |->
                 <<[name |-> Glucose, unit |-> MgDl,
                    optimalRange |-> <<"7", "0", "-">>,
                    measurements |-> <<[date |-> LabDate, value |-> 85000]>>],
                   [name |-> <<"H", "b">>, unit |-> MgDl,
                    optimalRange |-> <<"7", "0", "-", "9", "9">>,
                    measurements |-> <<[date |-> LabDate, value |-> 70000],
                                       [value |-> 100000]>>]>>],
              [name |-> <<"L", "i", "p">>]>>]}

InitResults ==
    /\ pc = "results"
    /\ biomarkers_raw \in BiomarkerDocs(MaxMeasurements)
    /\ biomarkers = << >>
    /\ summary_stats = EmptyDict
    /\ garmin = EmptyDict /\ whoop = EmptyDict /\ lingo = EmptyDict
    /\ garmin_daily = EmptyDict /\ whoop_daily = EmptyDict
    /\ glucose_daily = EmptyDict
    /\ daily_data = << >> /\ correlations = EmptyDict
    /\ pairs = << >> /\ scales = <<1, 1>> /\ coef = None
    /\ range_text = << >> /\ bounds_out = <<None, None>>
    /\ err = ""
    /\ Standalone

ProcessBiomarkers ==
    /\ pc = "results"
    /\ biomarkers' = process_biomarkers(biomarkers_raw)
    /\ pc' = "results_done"
    /\ UNCHANGED <<outer, raw, unit, err, biomarkers_raw, summary_stats, garmin_daily,
                   whoop_daily, glucose_daily, daily_data, correlations>>

SpecResults == InitResults /\ [][ProcessBiomarkers]_vars

\* C11: every biomarker result has inRange null when optimalMin or optimalMax
\* is null, and otherwise the boolean optimalMin <= value <= optimalMax, both
\* ends inclusive; a result is never out of range because a bound is unknown
C11_InRangeNullOrInclusive ==
    pc = "results_done" =>
        \A i \in 1..Len(biomarkers) :
            IF biomarkers[i].optimalMin = None \/ biomarkers[i].optimalMax = None
            THEN biomarkers[i].inRange = PyNone
            ELSE biomarkers[i].inRange
                     = PyBool(/\ biomarkers[i].optimalMin <= biomarkers[i].value
                              /\ biomarkers[i].value <= biomarkers[i].optimalMax)

\* a result with one bound known and inRange null, beside a result at the
\* lower bound that is in range and one above the upper bound that is not
C11_Witness ==
    /\ pc = "results_done"
    /\ \E i \in 1..Len(biomarkers) :
        /\ biomarkers[i].optimalMin # None /\ biomarkers[i].optimalMax = None
        /\ biomarkers[i].inRange = PyNone
    /\ \E i \in 1..Len(biomarkers) :
        /\ biomarkers[i].value = biomarkers[i].optimalMin
        /\ biomarkers[i].inRange = PyTrue
    /\ \E i \in 1..Len(biomarkers) :
        /\ biomarkers[i].optimalMax # None
        /\ biomarkers[i].value > biomarkers[i].optimalMax
        /\ biomarkers[i].inRange = PyFalse

-----------------------------------------------------------------------------
(* generate_summary_stats *)

(***************************************************************************)
(* A value of a metric is the double nearest to k / q for an integer k and *)
(* the metric's scale q: 1 for steps, recovery scores and heart rates, 10  *)
(* for hrvMs, strain and the glucose average, 100 for sleepHours.  sum()   *)
(* adds the doubles left to right, the mean is the double nearest to the   *)
(* quotient, and round(., n) is the nearest multiple of 10^-n to that      *)
(* double, a tie going to the even one.  The labels under "source" are     *)
(* plain strings.                                                          *)
(***************************************************************************)

\* [d[ns].get(key) for d in daily_data if d[ns].get(key)]
RECURSIVE MetricValues(_, _, _)
MetricValues(daily_, ns_, key_) ==
    CHOOSE result \in {
        IF daily = << >> THEN << >>
        ELSE (IF Truthy(Get(Head(daily)[ns], key))
              THEN <<Head(daily)[ns][key]>> ELSE << >>)
             \o MetricValues(Tail(daily), ns, key)
        : daily \in {daily_}, ns \in {ns_}, key \in {key_}} : TRUE

\* the number a sequence of limbs stands for
RECURSIVE LInt(_)
LInt(a_) ==
    CHOOSE result \in {
        IF a = << >> THEN 0 ELSE Head(a) + LimbBase * LInt(Tail(a))
        : a \in {a_}} : TRUE

\* the integer nearest to a / 2^GridBits, given its floor: a tie to the even one
NearestToGrid(a_, floor_) ==
    CHOOSE result \in {
        IF LLess(LSub(a, LShl(floor, GridBits)), LShl(<<1>>, GridBits - 1))
        THEN LInt(floor)
        ELSE IF LLess(LShl(<<1>>, GridBits - 1), LSub(a, LShl(floor, GridBits)))
        THEN LInt(floor) + 1
        ELSE LInt(floor) + (LInt(floor) % 2)
        : a \in {a_}, floor \in {floor_}} : TRUE

\* round(x, digits) in units of 10^-digits, for a double x in units of
\* 2^-GridBits
round_to(x_, digits_) ==
    CHOOSE result \in {
        NearestToGrid(LMul(x, Pow10(digits)), LShr(LMul(x, Pow10(digits)), GridBits))
        : x \in {x_}, digits \in {digits_}} : TRUE

\* sum() of the first n values, each the double nearest to values[i] / q
RECURSIVE FloatSum(_, _, _)
FloatSum(values_, q_, n_) ==
    CHOOSE result \in {
        IF n = 0 THEN << >>
        ELSE RoundSig(LAdd(FloatSum(values, q, n - 1), Double(values[n], q)))
        : values \in {values_}, q \in {q_}, n \in {n_}} : TRUE

\* sum(values) / len(values)
MeanOf(values, q) ==
    DoubleOfQuotient(FloatSum(values, q, Len(values)), Len(values))

\* the rounded mean with 0 standing for the mean of no values
rounded_mean_or_zero(values, q, digits) ==
    IF values = << >> THEN 0 ELSE round_to(MeanOf(values, q), digits)

\* round(sum(values) / len(values), digits) if values else None
RoundedMean(values, q, digits) ==
    IF values = << >> THEN None ELSE round_to(MeanOf(values, q), digits)

\* round(min(values), digits) if values else None, and the same of max
RoundedMin(values, q, digits) ==
    IF values = << >> THEN None ELSE round_to(Double(SeqMin(values), q), digits)
RoundedMax(values, q, digits) ==
    IF values = << >> THEN None ELSE round_to(Double(SeqMax(values), q), digits)

\* min(values) if values else None, and the same of max
MinOrNone(values) == IF values = << >> THEN None ELSE SeqMin(values)
MaxOrNone(values) == IF values = << >> THEN None ELSE SeqMax(values)

\* [d["date"] for d in daily_data if d.get("date")]
RECURSIVE DatesOf(_)
DatesOf(daily_) ==
    CHOOSE result \in {
        IF daily = << >> THEN << >>
        ELSE (IF TruthyStr(GetD(Head(daily), "date", NoneObj))
              THEN <<Head(daily).date>> ELSE << >>)
             \o DatesOf(Tail(daily))
        : daily \in {daily_}} : TRUE

\* the first date listed, None when there is none
first_date(dates) ==
    IF dates = << >> THEN NoneObj ELSE dates[1]

\* min(dates) if dates else None, and the same of max
MinDate(dates) ==
    IF dates = << >> THEN NoneObj ELSE sorted(Range(dates))[1]
MaxDate(dates) ==
    IF dates = << >> THEN NoneObj
    ELSE sorted(Range(dates))[Cardinality(Range(dates))]

\* list(set(b["category"] for b in biomarkers)): the distinct categories in
\* one of the orders a set may be iterated in
CategoryOrders(results) ==
    LET names == {results[i].category : i \in 1..Len(results)}
    IN  {s \in [1..Cardinality(names) -> names] :
            \A i, j \in 1..Cardinality(names) : i # j => s[i] # s[j]}

\* max(b["date"] for b in biomarkers) raises TypeError: two or more results,
\* one of them with a null date
SummaryRaises(results) ==
    Len(results) >= 2 /\ \E i \in 1..Len(results) : results[i].date = NoneObj

\* max(b["date"] for b in biomarkers) if biomarkers else None
LatestDate(results) ==
    IF results = << >> THEN NoneObj
    ELSE IF Len(results) = 1 THEN results[1].date
    ELSE MaxDate([i \in 1..Len(results) |-> results[i].date])

\* the entries of the averages rounded to an integer, with min and max as they
\* are: steps and restingHeartRate
IntegerStats(values, source) ==
    [average |-> RoundedMean(values, 1, 0),
     min |-> MinOrNone(values),
     max |-> MaxOrNone(values),
     daysWithData |-> Len(values),
     source |-> source]

generate_summary_stats(daily, results, categories) ==
    [dateRange |->
        [start |-> MinDate(DatesOf(daily)),
         end |-> MaxDate(DatesOf(daily)),
         totalDays |-> Len(DatesOf(daily))],
     steps |-> IntegerStats(MetricValues(daily, "garmin", "steps"), "Garmin"),
     sleep |->
        [averageHours |-> RoundedMean(MetricValues(daily, "whoop", "sleepHours"), 100, 1),
         minHours |-> RoundedMin(MetricValues(daily, "whoop", "sleepHours"), 100, 1),
         maxHours |-> RoundedMax(MetricValues(daily, "whoop", "sleepHours"), 100, 1),
         daysWithData |-> Len(MetricValues(daily, "whoop", "sleepHours")),
         source |-> "Whoop"],
     hrv |->
        [averageMs |-> RoundedMean(MetricValues(daily, "whoop", "hrvMs"), 10, 1),
         minMs |-> RoundedMin(MetricValues(daily, "whoop", "hrvMs"), 10, 1),
         maxMs |-> RoundedMax(MetricValues(daily, "whoop", "hrvMs"), 10, 1),
         daysWithData |-> Len(MetricValues(daily, "whoop", "hrvMs")),
         source |-> "Whoop"],
     recovery |->
        [average |-> RoundedMean(MetricValues(daily, "whoop", "recoveryScore"), 1, 1),
         min |-> MinOrNone(MetricValues(daily, "whoop", "recoveryScore")),
         max |-> MaxOrNone(MetricValues(daily, "whoop", "recoveryScore")),
         daysWithData |-> Len(MetricValues(daily, "whoop", "recoveryScore")),
         source |-> "Whoop"],
     restingHeartRate |->
        IntegerStats(MetricValues(daily, "whoop", "restingHeartRate"), "Whoop"),
     strain |->
        [average |-> RoundedMean(MetricValues(daily, "whoop", "strain"), 10, 1),
         min |-> RoundedMin(MetricValues(daily, "whoop", "strain"), 10, 1),
         max |-> RoundedMax(MetricValues(daily, "whoop", "strain"), 10, 1),
         daysWithData |-> Len(MetricValues(daily, "whoop", "strain")),
         source |-> "Whoop"],
     glucose |->
        [averageOfDailyAverages |->
            RoundedMean(MetricValues(daily, "glucose", "average"), 10, 1),
         daysWithData |-> Len(MetricValues(daily, "glucose", "average")),
         source |-> "Lingo CGM"],
     biomarkers |->
        [totalResults |-> Len(results),
         categories |-> categories,
         latestDate |-> LatestDate(results),
         source |-> "Lab Tests"]]

\* summary = generate_summary_stats(daily_data, biomarkers)
Summarize ==
    /\ pc = "correlated"
    /\ ~SummaryRaises(biomarkers)
    /\ \E categories \in CategoryOrders(biomarkers) :
        summary_stats' = generate_summary_stats(daily_data, biomarkers, categories)
    /\ pc' = "summarized"
    /\ UNCHANGED <<outer, raw, unit, err, biomarkers_raw, biomarkers, garmin_daily,
                   whoop_daily, glucose_daily, daily_data, correlations>>

\* max() raises in generate_summary_stats: the run ends with a traceback
SummarizeRaises ==
    /\ pc = "correlated"
    /\ SummaryRaises(biomarkers)
    /\ err' = "TypeError"
    /\ pc' = "crashed"
    /\ UNCHANGED <<outer, late, raw, unit, garmin_daily, whoop_daily, glucose_daily,
                   daily_data, correlations>>

\* the shapes of the merged record of day i: every metric present; zeros; nulls
\* and an empty glucose namespace; three empty namespaces; a tracker with a
\* resting heart rate and nothing else; values whose mean is not a multiple of
\* a tenth
SummaryShapes(i) ==
    { [date |-> DateOf(i),
       garmin |-> [steps |-> 1000 * i * i],
       whoop |-> [sleepHours |-> 600 + 35 * ((i * i) % 5), hrvMs |-> 400 + 27 * i,
                  recoveryScore |-> 40 + ((17 * i) % 50),
                  restingHeartRate |-> 50 + i, strain |-> 80 + 7 * i],
       glucose |-> GlucoseOf(900 + ((37 * i) % 100))],
      [date |-> DateOf(i),
       garmin |-> [steps |-> 0],
       whoop |-> [hrvMs |-> 452, recoveryScore |-> 0, restingHeartRate |-> 55,
                  strain |-> 0],
       glucose |-> GlucoseOf(1000)],
      [date |-> DateOf(i),
       garmin |-> [steps |-> None],
       whoop |-> [sleepHours |-> 735, recoveryScore |-> None,
                  restingHeartRate |-> None, strain |-> 125],
       glucose |-> EmptyDict],
      [date |-> DateOf(i), garmin |-> EmptyDict, whoop |-> EmptyDict,
       glucose |-> EmptyDict],
      [date |-> DateOf(i),
       garmin |-> [steps |-> 5000 + i, restingHeartRate |-> 130],
       whoop |-> EmptyDict,
       glucose |-> EmptyDict],
      [date |-> DateOf(i),
       garmin |-> [steps |-> 7001],
       whoop |-> [sleepHours |-> 745, hrvMs |-> 453, recoveryScore |-> 67,
                  restingHeartRate |-> 58, strain |-> 0],
       glucose |-> GlucoseOf(1015)] }

\* the merged sequences of n days, in date order
RECURSIVE SummarySeqs(_)
SummarySeqs(n) ==
    IF n = 0 THEN {<< >>}
    ELSE {Append(d, r) : d \in SummarySeqs(n - 1), r \in SummaryShapes(n)}

\* lists of results: none; one without a date; two with dates; three in two
\* categories, the last without a date
ResultLists ==
    {<< >>,
     <<ResultOf([value |-> 85000], 85000, Metabolic, [name |-> Glucose],
                << >>, <<None, None>>)>>,
     <<ResultOf([date |-> LabDate, value |-> 85000], 85000, Metabolic,
                [name |-> Glucose], << >>, <<None, None>>),
       ResultOf([date |-> DateOf(1), value |-> 70000], 70000, Metabolic,
                [name |-> Glucose], << >>, <<None, None>>)>>,
     <<ResultOf([date |-> DateOf(1), value |-> 85000], 85000, Metabolic,
                [name |-> Glucose], << >>, <<None, None>>),
       ResultOf([date |-> LabDate, value |-> 70000], 70000, <<"L", "i", "p">>,
                [name |-> <<"H", "b">>], << >>, <<None, None>>),
       ResultOf([value |-> 100000], 100000, <<"L", "i", "p">>,
                [name |-> <<"H", "b">>], << >>, <<None, None>>)>>}

InitSummary ==
    /\ pc = "correlated"
    /\ daily_data \in UNION {SummarySeqs(n) : n \in 0..MaxDays}
    /\ summary_stats = EmptyDict
    /\ biomarkers_raw = EmptyDict /\ biomarkers \in ResultLists
    /\ correlations = EmptyDict
    /\ garmin = EmptyDict /\ whoop = EmptyDict /\ lingo = EmptyDict
    /\ garmin_daily = EmptyDict /\ whoop_daily = EmptyDict
    /\ glucose_daily = EmptyDict
    /\ pairs = << >> /\ scales = <<1, 1>> /\ coef = None
    /\ range_text = << >> /\ bounds_out = <<None, None>>
    /\ err = ""
    /\ Standalone

SpecSummary == InitSummary /\ [][Summarize \/ SummarizeRaises]_vars

-----------------------------------------------------------------------------
(* main: the raw documents normalized, merged, correlated and summarised *)

\* days a raw document can hold records for
PipeDays == 2

PipeDates == {DateOf(i) : i \in 1..PipeDays}

\* the documents of the activity tracker holding records for the dates of S:
\* daily summaries; or activities and a weight, and a summary without a date
GarminRaw(S, v) ==
    LET ds == sorted(S) IN
    IF v = 1
    THEN [dailySummaries |->
             [i \in 1..Len(ds) |->
                 [date |-> ds[i], steps |-> 1000 * DayNo(ds[i]), calories |-> 2000,
                  restingHeartRate |-> 130]],
          activities |-> << >>]
    ELSE [dailySummaries |-> <<[steps |-> 9999]>>,
          activities |->
             [i \in 1..Len(ds) |->
                 [date |-> ds[i], name |-> <<"r", "u", "n">>, duration |-> 1800,
                  calories |-> 300]],
          weight |-> [i \in 1..Len(ds) |-> [date |-> ds[i], weight |-> 700]]]

GarminDocs == {EmptyDict} \cup {GarminRaw(S, v) : S \in SUBSET PipeDates, v \in 1..2}

\* the documents of the recovery tracker holding records for the dates of S:
\* scored recoveries and sleeps; recoveries without a score and a sleep without
\* a timestamp; workouts only, in reverse order
WhoopRaw(S, v) ==
    LET ds == sorted(S)
        n == Len(ds)
    IN  CASE v = 1 ->
              [recovery |->
                  [i \in 1..n |->
                      [created_at |-> ds[i] \o <<"T", "0", "8">>,
                       score |-> [recovery_score |-> 60 + DayNo(ds[i]),
                                  hrv_rmssd_milli |-> 452000,
                                  resting_heart_rate |-> 55]]],
               sleep |->
                  [i \in 1..n |->
                      [created_at |-> ds[i] \o <<"T", "0", "7">>,
                       score |-> [stage_summary |->
                                     [total_light_sleep_time_milli |-> 14400000,
                                      total_slow_wave_sleep_time_milli |-> 5400000,
                                      total_rem_sleep_time_milli |-> 7200000]]]],
               workout |-> << >>]
          [] v = 2 ->
              [recovery |-> [i \in 1..n |-> [created_at |-> ds[i] \o <<"T", "0", "8">>]],
               sleep |-> <<[created_at |-> << >>,
                            score |-> [sleep_performance_percentage |-> 85]]>>,
               workout |-> << >>]
          [] OTHER ->
              [recovery |-> << >>,
               sleep |-> << >>,
               workout |->
                  [i \in 1..n |->
                      [created_at |-> ds[n + 1 - i] \o <<"T", "1", "9">>,
                       score |-> [strain |-> 80 + DayNo(ds[n + 1 - i])]]]]

RawWhoopDocs == {EmptyDict} \cup {WhoopRaw(S, v) : S \in SUBSET PipeDates, v \in 1..3}

\* the documents of the glucose sensor holding readings for the dates of S: two
\* readings a day; or one a day and a reading without a timestamp
LingoRaw(S, v) ==
    LET ds == sorted(S)
        n == Len(ds)
    IN  IF v = 1
        THEN [history |->
                 [i \in 1..2 * n |->
                     IF i <= n
                     THEN [timestamp |-> ds[i] \o <<"T", "0", "8">>,
                           value |-> 90 + DayNo(ds[i])]
                     ELSE [timestamp |-> ds[i - n] \o <<"T", "1", "9">>,
                           value |-> 150]]]
        ELSE [history |->
                 [i \in 1..n |->
                     [timestamp |-> ds[i] \o <<"T", "0", "8">>, value |-> 66]]
                 \o <<[timestamp |-> << >>, value |-> 88]>>]

\* and a document with a reading that has a timestamp and no value
LingoDocs ==
    {EmptyDict} \cup {LingoRaw(S, v) : S \in SUBSET PipeDates, v \in 1..2}
    \cup {[history |-> <<[timestamp |-> Stamp(1, "0", "8"), value |-> 95],
                         [timestamp |-> Stamp(1, "1", "9")]>>]}

\* the documents of the lab results: two dated measurements of a biomarker;
\* or three measurements in two categories, the last without a date
LabDocs ==
    {EmptyDict,
     [categories |->
        <<[name |-> Metabolic,
           biomarkers |->
             <<[name |-> Glucose, unit |-> MgDl,
                optimalRange |-> <<"7", "0", "-", "9", "9">>,
                measurements |-> <<[date |-> LabDate, value |-> 85000],
                                   [date |-> DateOf(1), value |-> 100000]>>]>>]>>],
     [categories |->
        <<[name |-> Metabolic,
           biomarkers |->
             <<[name |-> Glucose, unit |-> MgDl,
                optimalRange |-> <<"7", "0", "-", "9", "9">>,
                measurements |-> <<[date |-> LabDate, value |-> 85000]>>]>>],
          [name |-> <<"L", "i", "p">>,
           biomarkers |->
             <<[name |-> <<"H", "b">>, unit |-> MgDl,
                measurements |-> <<[date |-> LabDate, value |-> 70000],
                                   [value |-> 100000]>>]>>]>>]}

\* the state of a run once the server was looked for, the files were loaded
\* and the documents fetched: a server on the first port when the recovery
\* tracker's document was fetched, no server when it is {}
Gathered ==
    /\ answers = [p \in Range(API_PORTS) |->
                     IF whoop # EmptyDict THEN "200" ELSE "refused"]
    /\ probed = IF whoop # EmptyDict THEN <<API_PORTS[1]>> ELSE API_PORTS
    /\ API_BASE_URL = IF whoop # EmptyDict THEN API_PORTS[1] ELSE None
    /\ inputs = [k \in {"garmin_file", "lingo_file"}
                       \cup (IF whoop # EmptyDict
                             THEN {"whoop_api", "biomarkers_api"} ELSE {}) |->
                    CASE k = "garmin_file" -> garmin
                      [] k = "lingo_file" -> lingo
                      [] k = "whoop_api" -> whoop
                      [] OTHER -> biomarkers_raw]
    /\ output = EmptyDict
    /\ csv_rows = << >> /\ stats = EmptyDict

Init ==
    /\ pc = "garmin"
    /\ garmin \in GarminDocs
    /\ whoop \in RawWhoopDocs
    /\ lingo \in LingoDocs
    /\ biomarkers_raw \in IF whoop # EmptyDict THEN LabDocs ELSE {EmptyDict}
    /\ garmin_daily = EmptyDict /\ whoop_daily = EmptyDict
    /\ glucose_daily = EmptyDict
    /\ daily_data = << >> /\ correlations = EmptyDict
    /\ pairs = << >> /\ scales = <<1, 1>> /\ coef = None
    /\ range_text = << >> /\ bounds_out = <<None, None>>
    /\ biomarkers = << >>
    /\ summary_stats = EmptyDict
    /\ err = ""
    /\ Gathered

\* garmin_daily = process_garmin_data(garmin) if garmin else {}
NormalizeGarmin ==
    /\ pc = "garmin"
    /\ garmin_daily' = IF garmin # EmptyDict THEN process_garmin_data(garmin)
                       ELSE EmptyDict
    /\ pc' = "whoop_main"
    /\ UNCHANGED <<outer, late, raw, unit, err, whoop_daily, glucose_daily, daily_data,
                   correlations>>

\* whoop_daily = process_whoop_data(whoop) if whoop else {}
NormalizeWhoop ==
    /\ pc = "whoop_main"
    /\ whoop_daily' = IF whoop # EmptyDict THEN process_whoop_data(whoop)
                      ELSE EmptyDict
    /\ pc' = "lingo"
    /\ UNCHANGED <<outer, late, raw, unit, err, garmin_daily, glucose_daily, daily_data,
                   correlations>>

\* glucose_daily = process_lingo_data(lingo) if lingo else {}
NormalizeLingo ==
    /\ pc = "lingo"
    /\ ~(lingo # EmptyDict /\ LingoRaises(lingo))
    /\ glucose_daily' = IF lingo # EmptyDict THEN process_lingo_data(lingo)
                        ELSE EmptyDict
    /\ pc' = "biomarkers"
    /\ UNCHANGED <<outer, late, raw, unit, err, garmin_daily, whoop_daily, daily_data,
                   correlations>>

\* sum(values) raises in process_lingo_data: the run ends with a traceback
LingoTypeError ==
    /\ pc = "lingo"
    /\ lingo # EmptyDict /\ LingoRaises(lingo)
    /\ err' = "TypeError"
    /\ pc' = "crashed"
    /\ UNCHANGED <<outer, late, raw, unit, garmin_daily, whoop_daily, glucose_daily,
                   daily_data, correlations>>

\* biomarkers = process_biomarkers(biomarkers_raw) if biomarkers_raw else []
NormalizeBiomarkers ==
    /\ pc = "biomarkers"
    /\ biomarkers' = IF biomarkers_raw # EmptyDict
                     THEN process_biomarkers(biomarkers_raw) ELSE << >>
    /\ pc' = "merge"
    /\ UNCHANGED <<outer, raw, unit, err, biomarkers_raw, summary_stats,
                   garmin_daily, whoop_daily, glucose_daily, daily_data,
                   correlations>>

\* bool(whoop.get("recovery") or whoop.get("sleep"))
whoop_flag(w) ==
    GetD(w, "recovery", << >>) # << >> \/ GetD(w, "sleep", << >>) # << >>

\* metadata.sources
sources_of(g, w, l, b) ==
    [garmin |-> g # EmptyDict,
     whoop |-> whoop_flag(w),
     lingo |-> l # EmptyDict,
     biomarkers |-> b # EmptyDict]

\* the output document, but for generatedAt, the time of the run
output_document(g, w, l, b, summary, correlation_results, daily, results) ==
    [summary |-> summary,
     correlations |-> correlation_results,
     dailyData |-> daily,
     biomarkers |-> results,
     metadata |-> [sources |-> sources_of(g, w, l, b), version |-> "1.0"]]

\* the output document is built and written to OUTPUT_FILE
WriteOutput ==
    /\ pc = "summarized"
    /\ output' = output_document(garmin, whoop, lingo, biomarkers_raw,
                                 summary_stats, correlations, daily_data,
                                 biomarkers)
    /\ pc' = "written"
    /\ UNCHANGED <<late, raw, unit, err, garmin_daily, whoop_daily, glucose_daily,
                   daily_data, correlations, answers, probed, API_BASE_URL,
                   inputs, csv_rows, stats>>

Next ==
    \/ NormalizeGarmin
    \/ NormalizeWhoop
    \/ NormalizeLingo
    \/ LingoTypeError
    \/ NormalizeBiomarkers
    \/ Merge
    \/ Correlate
    \/ Summarize
    \/ SummarizeRaises
    \/ WriteOutput

Spec == Init /\ [][Next]_vars

\* a search that requests every port and keeps the last one that answered
probe_every_port ==
    /\ pc = "probe"
    /\ probed' = Append(probed, API_PORTS[Len(probed) + 1])
    /\ API_BASE_URL' = IF answers[API_PORTS[Len(probed) + 1]] = "200"
                       THEN API_PORTS[Len(probed) + 1] ELSE API_BASE_URL
    /\ pc' = IF Len(probed) + 1 = Len(API_PORTS) THEN "load" ELSE "probe"
    /\ UNCHANGED <<late, raw, unit, err, garmin_daily, whoop_daily, glucose_daily,
                   daily_data, correlations, answers, inputs, output, csv_rows,
                   stats>>

\* one pass of find_api_server's loop: the request to the next port; a status
\* of 200 returns the server, another status or an exception goes on to the
\* next port, and after the last port None is returned.  The server stands
\* for its URL, API_BASE_URL = p for "http://localhost:p/api"
ProbePort ==
    /\ pc = "probe"
    /\ probed' = Append(probed, API_PORTS[Len(probed) + 1])
    /\ IF answers[API_PORTS[Len(probed) + 1]] = "200"
       THEN API_BASE_URL' = API_PORTS[Len(probed) + 1] /\ pc' = "load"
       ELSE /\ API_BASE_URL' = None
            /\ pc' = IF Len(probed) + 1 = Len(API_PORTS) THEN "load" ELSE "probe"
    /\ UNCHANGED <<late, raw, unit, err, garmin_daily, whoop_daily, glucose_daily,
                   daily_data, correlations, answers, inputs, output, csv_rows,
                   stats>>

\* load_json(file) or {}: {} for a file that is absent or cannot be parsed
load_json_or_empty(file) == GetD(inputs, file, EmptyDict)

\* garmin = load_json(GARMIN_FILE) or {}; lingo = load_json(LINGO_FILE) or {}
LoadFiles ==
    /\ pc = "load"
    /\ garmin' = load_json_or_empty("garmin_file")
    /\ lingo' = load_json_or_empty("lingo_file")
    /\ pc' = "fetch"
    /\ UNCHANGED <<outer, late, unit, err, whoop, garmin_daily, whoop_daily,
                   glucose_daily, daily_data, correlations>>

\* fetch_whoop_data: the records of each endpoint, [] for an endpoint whose
\* request fails
fetch_whoop_data(api) ==
    [endpoint \in {"recovery", "sleep", "workout"} |-> GetD(api, endpoint, << >>)]

\* fetch_biomarkers_data: the document, {} when the request fails
fetch_biomarkers_data(api) == GetD(api, "biomarkers_api", EmptyDict)

\* whoop = {}; biomarkers_raw = {}; the two fetches under if API_BASE_URL
Fetch ==
    /\ pc = "fetch"
    /\ IF API_BASE_URL # None
       THEN /\ whoop' = fetch_whoop_data(GetD(inputs, "whoop_api", EmptyDict))
            /\ biomarkers_raw' = fetch_biomarkers_data(inputs)
       ELSE whoop' = EmptyDict /\ biomarkers_raw' = EmptyDict
    /\ pc' = "garmin"
    /\ UNCHANGED <<outer, unit, err, garmin, lingo, biomarkers, summary_stats,
                   garmin_daily, whoop_daily, glucose_daily, daily_data,
                   correlations>>

\* what a request to a port meets: status 200, another status, an exception
Answers == {"200", "204", "refused"}

\* the files and the server's documents at hand; << >> stands for one that
\* is absent (a file) or whose request fails (a document of the server)
Present(choices) ==
    [k \in {c \in DOMAIN choices : choices[c] # << >>} |-> choices[k][1]]

\* the tracker's file: absent, or summaries; the glucose file: empty,
\* readings, or a reading without a value; the recovery tracker: no endpoint
\* answers, or workouts only; the lab results: the request fails, or a result
\* without a date
RunInputs ==
    {Present([garmin_file |-> g, lingo_file |-> l, whoop_api |-> w,
              biomarkers_api |-> b]) :
        g \in {<< >>, <<GarminRaw(PipeDates, 1)>>},
        l \in {<<EmptyDict>>, <<LingoRaw(PipeDates, 1)>>,
               <<[history |-> <<[timestamp |-> Stamp(1, "1", "9")]>>]>>},
        w \in {<< >>, <<WhoopRaw(PipeDates, 3)>>},
        b \in {<< >>} \cup {<<d>> : d \in LabDocs \ {EmptyDict}}}

\* the server holds documents when a port answers
Served(a, i) ==
    (\A p \in DOMAIN a : a[p] # "200")
        => DOMAIN i \cap {"whoop_api", "biomarkers_api"} = {}

InitRun ==
    /\ pc = "probe"
    /\ answers \in [Range(API_PORTS) -> Answers]
    /\ inputs \in {i \in RunInputs : Served(answers, i)}
    /\ probed = << >> /\ API_BASE_URL = None
    /\ garmin = EmptyDict /\ whoop = EmptyDict /\ lingo = EmptyDict
    /\ biomarkers_raw = EmptyDict /\ biomarkers = << >>
    /\ garmin_daily = EmptyDict /\ whoop_daily = EmptyDict
    /\ glucose_daily = EmptyDict
    /\ daily_data = << >> /\ correlations = EmptyDict
    /\ summary_stats = EmptyDict /\ output = EmptyDict
    /\ pairs = << >> /\ scales = <<1, 1>> /\ coef = None
    /\ range_text = << >> /\ bounds_out = <<None, None>>
    /\ csv_rows = << >> /\ stats = EmptyDict
    /\ err = ""

\* a run of main from its first statement
NextRun == ProbePort \/ LoadFiles \/ Fetch \/ Next

SpecRun == InitRun /\ [][NextRun]_vars

\* main runs to its end: a statement that can be executed is executed
SpecRunFair == SpecRun /\ WF_vars(NextRun)

\* the records of the lists of a raw document
RecordsOf(doc) == UNION {Range(doc[l]) : l \in DOMAIN doc}

\* the dates the records of a raw document carry: a date field, or the first
\* 10 characters of a timestamp
DatesCarried(doc) ==
    UNION {{IF k = "date" THEN r[k] ELSE Prefix(r[k], 10) :
               k \in DOMAIN r \cap {"date", "created_at", "timestamp"}} :
           r \in RecordsOf(doc)}

\* C3: for every source and every date that no record of the source's raw input
\* carries, the merged record of that date has an empty sub-record in the
\* source's namespace
C3_AbsentDateEmptyNamespace ==
    pc \in {"merged", "correlated", "summarized"} =>
        \A i \in 1..Len(daily_data) :
            LET r == daily_data[i] IN
            /\ r.date \notin DatesCarried(garmin) => r.garmin = EmptyDict
            /\ r.date \notin DatesCarried(whoop) => r.whoop = EmptyDict
            /\ r.date \notin DatesCarried(lingo) => r.glucose = EmptyDict

\* the recovery tracker has records for the first date only, the activity
\* tracker for the second too: the second merged record has no recovery data
C3_Witness ==
    /\ pc = "merged"
    /\ DatesCarried(whoop) = {DateOf(1)}
    /\ DatesCarried(garmin) = {DateOf(1), DateOf(2)}
    /\ Len(daily_data) = 2
    /\ daily_data[1].whoop # EmptyDict
    /\ daily_data[2].date = DateOf(2)
    /\ daily_data[2].whoop = EmptyDict
    /\ daily_data[2].garmin # EmptyDict

-----------------------------------------------------------------------------
(* process_lingo_data on its own *)

\* the most readings of a glucose document
MaxReadings == 4

\* readings of day 1 and day 2 (mg/dL), a reading with an empty timestamp and
\* a reading with a timestamp and no value
Readings ==
    {[timestamp |-> Stamp(1, "0", "8"), value |-> v] : v \in {100, 120, 150, 90}}
    \cup {[timestamp |-> Stamp(2, "1", "9"), value |-> v] : v \in {70, 140, 69}}
    \cup {[timestamp |-> << >>, value |-> 88],
          [timestamp |-> Stamp(2, "2", "0")]}

GlucoseDocs(n) == {[history |-> h] : h \in SeqsUpTo(Readings, n)}

InitLingo ==
    /\ pc = "lingo_unit"
    /\ lingo \in GlucoseDocs(MaxReadings)
    /\ glucose_daily = EmptyDict
    /\ garmin = EmptyDict /\ whoop = EmptyDict
    /\ garmin_daily = EmptyDict /\ whoop_daily = EmptyDict
    /\ daily_data = << >> /\ correlations = EmptyDict
    /\ pairs = << >> /\ scales = <<1, 1>> /\ coef = None
    /\ range_text = << >> /\ bounds_out = <<None, None>>
    /\ biomarkers_raw = EmptyDict /\ biomarkers = << >>
    /\ summary_stats = EmptyDict
    /\ err = ""
    /\ Standalone

\* process_lingo_data returns
ProcessLingo ==
    /\ pc = "lingo_unit"
    /\ ~LingoRaises(lingo)
    /\ glucose_daily' = process_lingo_data(lingo)
    /\ pc' = "lingo_done"
    /\ UNCHANGED <<outer, late, raw, unit, err, garmin_daily, whoop_daily, daily_data,
                   correlations>>

\* process_lingo_data raises at sum(values)
ProcessLingoRaises ==
    /\ pc = "lingo_unit"
    /\ LingoRaises(lingo)
    /\ err' = "TypeError"
    /\ pc' = "lingo_raised"
    /\ UNCHANGED <<outer, late, raw, unit, garmin_daily, whoop_daily, glucose_daily,
                   daily_data, correlations>>

SpecLingo == InitLingo /\ [][ProcessLingo \/ ProcessLingoRaises]_vars

\* the indices of the readings whose timestamp[:10] is the date
ReadingsAt(history, date) ==
    {i \in 1..Len(history) :
        /\ TruthyStr(GetD(history[i], "timestamp", << >>))
        /\ Prefix(history[i].timestamp, 10) = date}

\* the sum of the values of the readings at the indices I
RECURSIVE ValueSum(_, _)
ValueSum(history, I) ==
    IF I = {} THEN 0
    ELSE history[CHOOSE i \in I : TRUE].value
         + ValueSum(history, I \ {CHOOSE i \in I : TRUE})

\* result is num / den rounded to the nearest integer
IsRounded(result, num, den) == 2 * Abs(result * den - num) <= den

\* g is the summary of the readings at the indices I, average and
\* timeInRangePercent in tenths
IsSummaryOf(g, history, I) ==
    /\ g.readings = Cardinality(I)
    /\ g.min \in {history[i].value : i \in I}
    /\ g.max \in {history[i].value : i \in I}
    /\ \A i \in I : g.min <= history[i].value /\ history[i].value <= g.max
    /\ IsRounded(g.average, 10 * ValueSum(history, I), Cardinality(I))
    /\ g.inRange = Cardinality({i \in I : 70 <= history[i].value
                                          /\ history[i].value <= 140})
    /\ IsRounded(g.timeInRangePercent, 1000 * g.inRange, Cardinality(I))

\* C12: the glucose summary of a date is computed from exactly the readings
\* whose timestamp[:10] is the date: the count, min, max, the mean rounded to
\* one decimal, the count with 70 <= v <= 140 and its percentage rounded to one
\* decimal; [100, 120, 150, 90] gives 115.0, 90, 150, 3 and 75.0
C12_DailyGlucoseSummary ==
    pc = "lingo_done" =>
        /\ \A d \in DOMAIN glucose_daily :
            /\ ReadingsAt(lingo.history, d) # {}
            /\ glucose_daily[d].date = d
            /\ IsSummaryOf(glucose_daily[d].glucose, lingo.history,
                           ReadingsAt(lingo.history, d))
        /\ \A i \in 1..Len(lingo.history) :
            TruthyStr(GetD(lingo.history[i], "timestamp", << >>))
                => Prefix(lingo.history[i].timestamp, 10) \in DOMAIN glucose_daily
        /\ ReadingsOf(lingo.history, DateOf(1), 1) = <<100, 120, 150, 90>>
            => glucose_daily[DateOf(1)].glucose
                   = [average |-> 1150, min |-> 90, max |-> 150, readings |-> 4,
                      inRange |-> 3, timeInRangePercent |-> 750]

\* the readings 100, 120, 150, 90 of one day, summarised
C12_Witness ==
    /\ pc = "lingo_done"
    /\ ReadingsOf(lingo.history, DateOf(1), 1) = <<100, 120, 150, 90>>
    /\ DateOf(1) \in DOMAIN glucose_daily
    /\ glucose_daily[DateOf(1)].glucose.inRange = 3

\* C27: every glucose sub-record process_lingo_data produces is that of one or
\* more readings: readings >= 1, 0 <= inRange <= readings, timeInRangePercent
\* (in tenths) from 0 to 100; a date has an entry only if a reading with a
\* timestamp falls on it, so no entry is zero-filled
C27_NoZeroFilledGlucoseEntry ==
    pc = "lingo_done" =>
        \A d \in DOMAIN glucose_daily :
            LET g == glucose_daily[d].glucose
            IN  /\ g # EmptyDict
                /\ g.readings >= 1
                /\ 0 <= g.inRange /\ g.inRange <= g.readings
                /\ 0 <= g.timeInRangePercent /\ g.timeInRangePercent <= 100 * 10
                /\ TruthyStr(d)
                /\ \E i \in 1..Len(lingo.history) :
                      /\ TruthyStr(GetD(lingo.history[i], "timestamp", << >>))
                      /\ Prefix(lingo.history[i].timestamp, 10) = d

\* a reading without a timestamp next to a day with no reading in the band and
\* a day with every reading in it: two entries, 0 and 100 percent
C27_Witness ==
    /\ pc = "lingo_done"
    /\ \E i \in 1..Len(lingo.history) : lingo.history[i].timestamp = << >>
    /\ DOMAIN glucose_daily = {DateOf(1), DateOf(2)}
    /\ glucose_daily[DateOf(1)].glucose.inRange = 0
    /\ glucose_daily[DateOf(1)].glucose.timeInRangePercent = 0
    /\ glucose_daily[DateOf(2)].glucose.inRange = glucose_daily[DateOf(2)].glucose.readings
    /\ glucose_daily[DateOf(2)].glucose.timeInRangePercent = 100 * 10

\* the values of the readings of a date that have one
RECURSIVE Valued(_)
Valued(values) ==
    IF values = << >> THEN << >>
    ELSE (IF Head(values) # None THEN <<Head(values)>> ELSE << >>)
         \o Valued(Tail(values))

\* C13: a reading with a timestamp and no value is skipped: process_lingo_data
\* does not raise, and the summary of the day is that of its other readings
C13_ValuelessReadingSkipped ==
    pc \in {"lingo_done", "lingo_raised"} =>
        /\ err = ""
        /\ \A d \in ReadingDates(lingo.history) :
            Valued(ReadingsOf(lingo.history, d, 1)) # << >>
                => /\ d \in DOMAIN glucose_daily
                   /\ glucose_daily[d].glucose
                          = GlucoseSummary(Valued(ReadingsOf(lingo.history, d, 1)))

-----------------------------------------------------------------------------
(* the three normalizers on records with and without a date *)

\* the most records of one list
MaxSlots == 3

\* what a record holds for its date: day 1, day 2, no such key, null, ""
DateSlots == {"day1", "day2", "missing", "null", "empty"}

\* the record with its date field set as the slot says; hour is empty for a
\* date and "T08" for a timestamp
Dated(record, key, slot, hour) ==
    CASE slot = "day1" -> Put(record, key, DateOf(1) \o hour)
      [] slot = "day2" -> Put(record, key, DateOf(2) \o hour)
      [] slot = "null" -> Put(record, key, NoneObj)
      [] slot = "empty" -> Put(record, key, << >>)
      [] OTHER -> record

\* one tracker document, one recovery-tracker document and one glucose document
\* whose i-th records hold the i-th slot
SlottedGarmin(slots) ==
    [dailySummaries |->
        [i \in 1..Len(slots) |-> Dated([steps |-> 1000 * i], "date", slots[i], << >>)],
     sleepData |->
        [i \in 1..Len(slots) |-> Dated([sleepScore |-> 70 + i], "date", slots[i], << >>)],
     activities |->
        [i \in 1..Len(slots) |->
            Dated([duration |-> 600 * i, calories |-> 100], "date", slots[i], << >>)],
     weight |->
        [i \in 1..Len(slots) |-> Dated([weight |-> 700 + i], "date", slots[i], << >>)]]

SlottedWhoop(slots) ==
    [recovery |->
        [i \in 1..Len(slots) |->
            Dated([score |-> [recovery_score |-> 60 + i, hrv_rmssd_milli |-> 452000,
                              resting_heart_rate |-> 50 + i]],
                  "created_at", slots[i], <<"T", "0", "8">>)],
     sleep |->
        [i \in 1..Len(slots) |->
            Dated([score |-> [sleep_performance_percentage |-> 80 + i]],
                  "created_at", slots[i], <<"T", "0", "7">>)],
     workout |->
        [i \in 1..Len(slots) |->
            Dated([score |-> [strain |-> 100 + i]],
                  "created_at", slots[i], <<"T", "1", "9">>)]]

SlottedLingo(slots) ==
    [history |->
        [i \in 1..Len(slots) |->
            Dated([value |-> 90 + i], "timestamp", slots[i], <<"T", "0", "8">>)]]

InitSlotted ==
    /\ pc = "garmin"
    /\ \E slots \in SeqsUpTo(DateSlots, MaxSlots) :
        /\ garmin = SlottedGarmin(slots)
        /\ whoop = SlottedWhoop(slots)
        /\ lingo = SlottedLingo(slots)
    /\ garmin_daily = EmptyDict /\ whoop_daily = EmptyDict
    /\ glucose_daily = EmptyDict
    /\ daily_data = << >> /\ correlations = EmptyDict
    /\ pairs = << >> /\ scales = <<1, 1>> /\ coef = None
    /\ range_text = << >> /\ bounds_out = <<None, None>>
    /\ biomarkers_raw = EmptyDict /\ biomarkers = << >>
    /\ summary_stats = EmptyDict
    /\ err = ""
    /\ Gathered

\* the three normalizer calls of main, in its order
SpecSlotted ==
    InitSlotted /\ [][NormalizeGarmin \/ NormalizeWhoop \/ NormalizeLingo]_vars

\* the record holds a date under the key: the key is there, not null, not ""
HasDate(record, key) ==
    key \in DOMAIN record /\ record[key] # NoneObj /\ record[key] # << >>

RECURSIVE WithDates(_, _)
WithDates(list, key) ==
    IF list = << >> THEN << >>
    ELSE (IF HasDate(Head(list), key) THEN <<Head(list)>> ELSE << >>)
         \o WithDates(Tail(list), key)

\* the document without the records that hold no date
WithoutDateless(doc, key) == [l \in DOMAIN doc |-> WithDates(doc[l], key)]

\* the dates of the records of the document that hold one
DatesHeld(doc, key) ==
    {Prefix(r[key], 10) : r \in {q \in RecordsOf(doc) : HasDate(q, key)}}

\* C14: in each of the three normalizers a record whose date, created_at or
\* timestamp is missing, null or empty is dropped without an error: the result
\* is the result for the document without such records, its keys are the dates
\* of the records that hold one, those before and those after a dropped record
C14_DatelessRecordDropped ==
    /\ err = ""
    /\ pc \in {"whoop_main", "lingo", "biomarkers"} =>
        /\ garmin_daily = process_garmin_data(WithoutDateless(garmin, "date"))
        /\ DOMAIN garmin_daily = DatesHeld(garmin, "date")
    /\ pc \in {"lingo", "biomarkers"} =>
        /\ whoop_daily = process_whoop_data(WithoutDateless(whoop, "created_at"))
        /\ DOMAIN whoop_daily = DatesHeld(whoop, "created_at")
    /\ pc = "biomarkers" =>
        /\ glucose_daily = process_lingo_data(WithoutDateless(lingo, "timestamp"))
        /\ DOMAIN glucose_daily = DatesHeld(lingo, "timestamp")

\* a record without the key, then one of day 1, then one with a null date: one
\* key in each result, holding the second record's values
C14_Witness ==
    /\ pc = "biomarkers"
    /\ Len(lingo.history) = 3
    /\ DOMAIN lingo.history[1] = {"value"}
    /\ lingo.history[3].timestamp = NoneObj
    /\ DOMAIN garmin_daily = {DateOf(1)}
    /\ garmin_daily[DateOf(1)].garmin.steps = 2000
    /\ DOMAIN whoop_daily = {DateOf(1)}
    /\ whoop_daily[DateOf(1)].whoop.recoveryScore = 62
    /\ DOMAIN glucose_daily = {DateOf(1)}
    /\ glucose_daily[DateOf(1)].glucose.min = 92

-----------------------------------------------------------------------------
(* process_whoop_data: the fields of a date across the three streams *)

\* C15: a recovery score without recovery_score leaves the date's sub-record
\* without a recoveryScore entry, and one without resting_heart_rate leaves it
\* without a restingHeartRate entry: the metric is absent, not null and not 0
C15_MissingMetricAbsent ==
    pc = "whoop_done" =>
        \A d \in WhoopStampDates :
            LET rec == GetD(whoop, "recovery", << >>) IN
            /\ (\A i \in Scored(rec, d) : "recovery_score" \notin DOMAIN rec[i].score)
                => (d \in DOMAIN whoop_daily
                        => "recoveryScore" \notin DOMAIN whoop_daily[d].whoop)
            /\ (\A i \in Scored(rec, d) : "resting_heart_rate" \notin DOMAIN rec[i].score)
                => (d \in DOMAIN whoop_daily
                        => "restingHeartRate" \notin DOMAIN whoop_daily[d].whoop)

\* the accumulator after the recovery loop, and after the sleep loop
AfterRecovery(w) == Loop(w, "recovery", EmptyDict)
AfterSleep(w) == Loop(w, "sleep", AfterRecovery(w))

RecoveryFields == {"recoveryScore", "hrvMs", "restingHeartRate"}
SleepFields ==
    {"sleepHours", "deepSleepHours", "remSleepHours", "lightSleepHours",
     "sleepPerformance", "sleepEfficiency"}

\* every field of every date of the earlier accumulator is in the later one,
\* with its value
Kept(earlier, later) ==
    \A d \in DOMAIN earlier :
        /\ d \in DOMAIN later
        /\ \A k \in DOMAIN earlier[d].whoop :
            /\ k \in DOMAIN later[d].whoop
            /\ later[d].whoop[k] = earlier[d].whoop[k]

\* the fields the later accumulator holds and the earlier does not
Added(earlier, later) ==
    UNION {DOMAIN later[d].whoop
               \ (IF d \in DOMAIN earlier THEN DOMAIN earlier[d].whoop ELSE {}) :
           d \in DOMAIN later}

\* C17: the streams are folded in the order recovery, sleep, workout into one
\* accumulator: the fields of a date written by the recovery stream keep their
\* values through the sleep and workout streams, the sleep fields keep theirs
\* through the workout stream, and each stream adds fields of its own only
C17_EarlierStreamFieldsKept ==
    pc = "whoop_done" =>
        /\ Added(EmptyDict, AfterRecovery(whoop)) \subseteq RecoveryFields
        /\ Kept(AfterRecovery(whoop), AfterSleep(whoop))
        /\ Added(AfterRecovery(whoop), AfterSleep(whoop)) \subseteq SleepFields
        /\ Kept(AfterSleep(whoop), whoop_daily)
        /\ Added(AfterSleep(whoop), whoop_daily) \subseteq {"strain"}
        /\ \A d \in WhoopStampDates :
            LET rec == GetD(whoop, "recovery", << >>) IN
            Scored(rec, d) # {} =>
                /\ whoop_daily[d].whoop.recoveryScore
                       = Get(rec[SetMax(Scored(rec, d))].score, "recovery_score")
                /\ whoop_daily[d].whoop.restingHeartRate
                       = Get(rec[SetMax(Scored(rec, d))].score, "resting_heart_rate")
        /\ \A d \in WhoopStampDates :
            LET sl == GetD(whoop, "sleep", << >>) IN
            Scored(sl, d) # {} =>
                whoop_daily[d].whoop.sleepPerformance
                    = Get(sl[SetMax(Scored(sl, d))].score, "sleep_performance_percentage")

\* a recovery, a sleep and a workout of day 1: the day holds the fields of all
\* three streams
C17_Witness ==
    /\ pc = "whoop_done"
    /\ Scored(GetD(whoop, "recovery", << >>), DateOf(1)) # {}
    /\ Scored(GetD(whoop, "sleep", << >>), DateOf(1)) # {}
    /\ Scored(GetD(whoop, "workout", << >>), DateOf(1)) # {}
    /\ DOMAIN whoop_daily = {DateOf(1)}
    /\ DOMAIN whoop_daily[DateOf(1)].whoop
           = RecoveryFields \cup SleepFields \cup {"strain"}
    /\ whoop_daily[DateOf(1)].whoop.recoveryScore = 66
    /\ whoop_daily[DateOf(1)].whoop.sleepHours = 750
    /\ whoop_daily[DateOf(1)].whoop.strain = 83

-----------------------------------------------------------------------------
(* process_garmin_data on its own *)

\* the most activities of a tracker document
MaxActivities == 3

Run == <<"r", "u", "n">>

\* activities of day 1 and day 2 (duration in seconds): with both numbers,
\* with a null duration, without calories; and an activity without a date
Activities ==
    {[date |-> DateOf(1), name |-> Run, duration |-> 1800, calories |-> 300],
     [date |-> DateOf(1), name |-> Run, duration |-> None, calories |-> 200],
     [date |-> DateOf(1), duration |-> 600],
     [date |-> DateOf(2), name |-> Run, duration |-> 1200, calories |-> 150],
     [name |-> Run, duration |-> 999, calories |-> 99]}

\* tracker documents: activities alone, or beside a daily summary of day 1
TrackerDocs(n) ==
    {[activities |-> a] : a \in SeqsUpTo(Activities, n)}
    \cup {[dailySummaries |-> <<[date |-> DateOf(1), steps |-> 8000]>>,
           activities |-> a] : a \in SeqsUpTo(Activities, n)}

InitGarmin ==
    /\ pc = "garmin_unit"
    /\ garmin \in TrackerDocs(MaxActivities)
    /\ garmin_daily = EmptyDict
    /\ whoop = EmptyDict /\ lingo = EmptyDict
    /\ whoop_daily = EmptyDict /\ glucose_daily = EmptyDict
    /\ daily_data = << >> /\ correlations = EmptyDict
    /\ pairs = << >> /\ scales = <<1, 1>> /\ coef = None
    /\ range_text = << >> /\ bounds_out = <<None, None>>
    /\ biomarkers_raw = EmptyDict /\ biomarkers = << >>
    /\ summary_stats = EmptyDict
    /\ err = ""
    /\ Standalone

ProcessGarmin ==
    /\ pc = "garmin_unit"
    /\ garmin_daily' = process_garmin_data(garmin)
    /\ pc' = "garmin_done"
    /\ UNCHANGED <<outer, late, raw, unit, err, whoop_daily, glucose_daily, daily_data,
                   correlations>>

SpecGarmin == InitGarmin /\ [][ProcessGarmin]_vars

\* the indices of the activities of a date
ActivitiesAt(activities, date) ==
    {i \in 1..Len(activities) :
        "date" \in DOMAIN activities[i] /\ activities[i].date = date}

\* the k-th smallest index of I
NthOf(I, k) == CHOOSE i \in I : Cardinality({j \in I : j < i}) = k - 1

\* the sum of a field over the activities at the indices I, a missing or null
\* value counting 0
RECURSIVE FieldSum(_, _, _)
FieldSum(activities, I, key) ==
    IF I = {} THEN 0
    ELSE (IF key \in DOMAIN activities[CHOOSE i \in I : TRUE]
             /\ activities[CHOOSE i \in I : TRUE][key] # None
          THEN activities[CHOOSE i \in I : TRUE][key] ELSE 0)
         + FieldSum(activities, I \ {CHOOSE i \in I : TRUE}, key)

\* g holds the activities at the indices I: the list in input order, its
\* length and the two sums
HoldsActivities(g, activities, I) ==
    /\ {"activities", "activityCount", "totalActivityDuration",
        "totalActivityCalories"} \subseteq DOMAIN g
    /\ Len(g.activities) = Cardinality(I)
    /\ \A k \in 1..Cardinality(I) :
        /\ g.activities[k].duration = Get(activities[NthOf(I, k)], "duration")
        /\ g.activities[k].calories = Get(activities[NthOf(I, k)], "calories")
        /\ g.activities[k].name = GetD(activities[NthOf(I, k)], "name", NoneObj)
    /\ g.activityCount = Cardinality(I)
    /\ g.totalActivityDuration = FieldSum(activities, I, "duration")
    /\ g.totalActivityCalories = FieldSum(activities, I, "calories")

\* C18: for each date with one or more tracker activities, the activities list
\* of the date holds exactly its activity entries in input order, activityCount
\* is the length of the list, totalActivityDuration the sum of the durations
\* and totalActivityCalories the sum of the calories, a missing or null
\* duration or calories counting 0
C18_ActivitiesAggregated ==
    pc = "garmin_done" =>
        \A d \in {DateOf(1), DateOf(2)} :
            ActivitiesAt(garmin.activities, d) # {} =>
                /\ d \in DOMAIN garmin_daily
                /\ HoldsActivities(garmin_daily[d].garmin, garmin.activities,
                                   ActivitiesAt(garmin.activities, d))

\* day 1 with a null duration, then 1800 s and 300 kcal, then 600 s and no
\* calories: three entries in that order, 2400 s and 500 kcal
C18_Witness ==
    /\ pc = "garmin_done"
    /\ DateOf(1) \in DOMAIN garmin_daily
    /\ "activityCount" \in DOMAIN garmin_daily[DateOf(1)].garmin
    /\ garmin_daily[DateOf(1)].garmin.activityCount = 3
    /\ garmin_daily[DateOf(1)].garmin.activities[1].duration = None
    /\ garmin_daily[DateOf(1)].garmin.activities[2].duration = 1800
    /\ garmin_daily[DateOf(1)].garmin.activities[3].calories = None
    /\ garmin_daily[DateOf(1)].garmin.totalActivityDuration = 2400
    /\ garmin_daily[DateOf(1)].garmin.totalActivityCalories = 500

-----------------------------------------------------------------------------
(* the summary statistics of a run and of merged sequences *)

\* the indices of the merged records with a resting heart rate of the
\* recovery tracker
WithHeartRate(daily) ==
    {i \in 1..Len(daily) :
        /\ "restingHeartRate" \in DOMAIN daily[i].whoop
        /\ daily[i].whoop.restingHeartRate # None
        /\ daily[i].whoop.restingHeartRate # 0}

\* a raw daily summary of the tracker carries a resting heart rate
TrackerCarriesHeartRate ==
    /\ garmin # EmptyDict
    /\ \E i \in 1..Len(garmin.dailySummaries) :
        "restingHeartRate" \in DOMAIN garmin.dailySummaries[i]

\* C16: no tracker sub-record of the merged output holds restingHeartRate, even
\* when the tracker's daily summaries carry it, and the resting heart rate of
\* the summary is computed from the recovery tracker's namespace only
C16_TrackerHeartRateExcluded ==
    /\ \A i \in 1..Len(daily_data) :
        "restingHeartRate" \notin DOMAIN daily_data[i].garmin
    /\ pc = "summarized" =>
        /\ summary_stats.restingHeartRate.daysWithData
               = Cardinality(WithHeartRate(daily_data))
        /\ summary_stats.restingHeartRate.source = "Whoop"
        /\ WithHeartRate(daily_data) = {} =>
            /\ summary_stats.restingHeartRate.average = None
            /\ summary_stats.restingHeartRate.min = None
            /\ summary_stats.restingHeartRate.max = None
        /\ WithHeartRate(daily_data) # {} =>
            /\ summary_stats.restingHeartRate.min
                   \in {daily_data[i].whoop.restingHeartRate :
                           i \in WithHeartRate(daily_data)}
            /\ summary_stats.restingHeartRate.max
                   \in {daily_data[i].whoop.restingHeartRate :
                           i \in WithHeartRate(daily_data)}
            /\ \A i \in WithHeartRate(daily_data) :
                /\ summary_stats.restingHeartRate.min
                       <= daily_data[i].whoop.restingHeartRate
                /\ daily_data[i].whoop.restingHeartRate
                       <= summary_stats.restingHeartRate.max

\* the tracker reports 130 on two days and the recovery tracker 55 on the
\* first: the summary holds 55 from one day
C16_Witness ==
    /\ pc = "summarized"
    /\ TrackerCarriesHeartRate
    /\ Len(daily_data) = 2
    /\ daily_data[2].garmin # EmptyDict
    /\ daily_data[2].whoop = EmptyDict
    /\ summary_stats.restingHeartRate.daysWithData = 1
    /\ summary_stats.restingHeartRate.average = 55
    /\ summary_stats.restingHeartRate.max = 55

\* the number of merged records that hold a value other than null for the
\* metric, 0 included
DaysPresent(daily, ns, key) ==
    Cardinality({i \in 1..Len(daily) :
                    key \in DOMAIN daily[i][ns] /\ daily[i][ns][key] # None})

\* C19: the daysWithData of each tracked metric is the number of daily records
\* in which the metric is present with a non-null value, a recorded 0 counting
\* as present
C19_DaysWithDataCountsPresent ==
    pc = "summarized" =>
        /\ summary_stats.steps.daysWithData
               = DaysPresent(daily_data, "garmin", "steps")
        /\ summary_stats.sleep.daysWithData
               = DaysPresent(daily_data, "whoop", "sleepHours")
        /\ summary_stats.hrv.daysWithData
               = DaysPresent(daily_data, "whoop", "hrvMs")
        /\ summary_stats.recovery.daysWithData
               = DaysPresent(daily_data, "whoop", "recoveryScore")
        /\ summary_stats.restingHeartRate.daysWithData
               = DaysPresent(daily_data, "whoop", "restingHeartRate")
        /\ summary_stats.strain.daysWithData
               = DaysPresent(daily_data, "whoop", "strain")
        /\ summary_stats.glucose.daysWithData
               = DaysPresent(daily_data, "glucose", "average")

\* the entry reports a mean, a min and a max under the three keys, and when
\* one day or more has data min <= mean <= max; the mean is in units of
\* 1 / scale of the units of min and max
MeanWithinMinMax(entry, mean, min, max, scale) ==
    /\ {mean, min, max} \subseteq DOMAIN entry
    /\ entry.daysWithData >= 1 =>
        /\ entry[min] * scale <= entry[mean]
        /\ entry[mean] <= entry[max] * scale

\* C20: for each of the seven tracked metrics the summary reports a mean, a
\* min and a max over the days where the metric is present, with
\* min <= mean <= max when one day or more has data
C20_MeanMinMaxOfSevenMetrics ==
    pc = "summarized" =>
        /\ MeanWithinMinMax(summary_stats.steps, "average", "min", "max", 1)
        /\ MeanWithinMinMax(summary_stats.sleep, "averageHours", "minHours",
                            "maxHours", 1)
        /\ MeanWithinMinMax(summary_stats.hrv, "averageMs", "minMs", "maxMs", 1)
        /\ MeanWithinMinMax(summary_stats.recovery, "average", "min", "max", 10)
        /\ MeanWithinMinMax(summary_stats.restingHeartRate, "average", "min",
                            "max", 1)
        /\ MeanWithinMinMax(summary_stats.strain, "average", "min", "max", 1)
        /\ MeanWithinMinMax(summary_stats.glucose, "averageOfDailyAverages",
                            "min", "max", 1)

\* no record of daily holds a value of the metric that the filter keeps
NoData(daily, ns, key) ==
    \A i \in 1..Len(daily) : ~Truthy(Get(daily[i][ns], key))

\* the entry of a metric without data: null under the three keys, 0 days
NullStats(entry, mean, min, max) ==
    /\ entry[mean] = None /\ entry[min] = None /\ entry[max] = None
    /\ entry.daysWithData = 0

BiomarkerEntryOf(entry, results) ==
    /\ entry.totalResults = Len(results)
    /\ Range(entry.categories) = {results[i].category : i \in 1..Len(results)}
    /\ Len(entry.categories) = Cardinality(Range(entry.categories))
    /\ IF results = << >> THEN entry.latestDate = NoneObj
       ELSE /\ \E i \in 1..Len(results) : entry.latestDate = results[i].date
            /\ \A i \in 1..Len(results) :
                  \/ results[i].date = entry.latestDate
                  \/ /\ results[i].date # NoneObj /\ entry.latestDate # NoneObj
                     /\ StrLess(results[i].date, entry.latestDate)

\* C22: the biomarker summary reports the number of results, the set of
\* distinct categories and the maximum date; for an empty list latestDate is
\* null, and for no list of results, those with a measurement without a date
\* included, does computing it raise
C22_BiomarkerSummaryNeverRaises ==
    /\ err = ""
    /\ pc = "summarized" =>
           BiomarkerEntryOf(summary_stats.biomarkers, biomarkers)

-----------------------------------------------------------------------------
(* the output document of a run *)

\* some list of the document holds a record
HoldsRecords(doc) == \E k \in DOMAIN doc : doc[k] # << >>

\* some record of dailyData has a sub-record of the source that is not empty
HasDailyData(daily, ns) == \E i \in 1..Len(daily) : daily[i][ns] # EmptyDict

\* C23: in the output document each metadata.sources flag is true exactly
\* when the source's input was not empty: a source with a non-empty sub-record
\* in dailyData (a recovery-tracker document with workouts only, for one) has
\* its flag true, and a source whose document is absent or empty has it false
C23_SourceFlagIffInputNonEmpty ==
    pc = "written" =>
        /\ output.metadata.sources.garmin <=> garmin # EmptyDict
        /\ output.metadata.sources.lingo <=> lingo # EmptyDict
        /\ output.metadata.sources.biomarkers <=> biomarkers_raw # EmptyDict
        /\ output.metadata.sources.whoop <=> HoldsRecords(whoop)
        /\ HasDailyData(output.dailyData, "garmin")
               => output.metadata.sources.garmin
        /\ HasDailyData(output.dailyData, "whoop")
               => output.metadata.sources.whoop
        /\ HasDailyData(output.dailyData, "glucose")
               => output.metadata.sources.lingo

\* the dates of the records of a merged sequence
DailyDates(daily) == {daily[i].date : i \in 1..Len(daily)}

\* the sub-records of the daily mapping of a source are those of the records,
\* and a date the mapping lacks has an empty sub-record
BuiltFrom(daily, ns, mapping) ==
    \A i \in 1..Len(daily) :
        daily[i][ns] = IF daily[i].date \in DOMAIN mapping
                       THEN GetD(mapping[daily[i].date], ns, EmptyDict)
                       ELSE EmptyDict

\* the output document is complete: its five parts, the seven correlations,
\* dailyData built from the sources at hand, the list of biomarker results
CompleteOutput ==
    /\ DOMAIN output
           = {"summary", "correlations", "dailyData", "biomarkers", "metadata"}
    /\ DOMAIN output.correlations = PairNames
    /\ output.summary = summary_stats /\ output.summary # EmptyDict
    /\ DailyDates(output.dailyData)
           = DOMAIN garmin_daily \cup DOMAIN whoop_daily \cup DOMAIN glucose_daily
    /\ BuiltFrom(output.dailyData, "garmin", garmin_daily)
    /\ BuiltFrom(output.dailyData, "whoop", whoop_daily)
    /\ BuiltFrom(output.dailyData, "glucose", glucose_daily)
    /\ garmin = EmptyDict => ~HasDailyData(output.dailyData, "garmin")
    /\ whoop = EmptyDict => ~HasDailyData(output.dailyData, "whoop")
    /\ lingo = EmptyDict => ~HasDailyData(output.dailyData, "glucose")
    /\ output.biomarkers = biomarkers
    /\ biomarkers_raw = EmptyDict => output.biomarkers = << >>

-----------------------------------------------------------------------------
(* import-lingo-csv.py: parse_glucose_value, import_csv, calculate_stats *)

\* float("nan"), in a value slot: every comparison with it is false
NaN == -999999999

\* a < b and a <= b of two floats
FloatLess(a, b) == a # NaN /\ b # NaN /\ a < b
FloatLessEq(a, b) == a # NaN /\ b # NaN /\ a <= b

\* str.upper(), for the letters of the cells
UpperOf(c) ==
    CASE c = "h" -> "H" [] c = "i" -> "I" [] c = "g" -> "G" [] c = "l" -> "L"
      [] c = "o" -> "O" [] c = "w" -> "W" [] c = "n" -> "N" [] c = "a" -> "A"
      [] OTHER -> c
Upper(s) == [i \in 1..Len(s) |-> UpperOf(s[i])]

\* str.strip(), for a text whose only whitespace is the space
RECURSIVE Strip(_)
Strip(s_) ==
    CHOOSE result \in {
        IF s = << >> THEN s
        ELSE IF Head(s) = " " THEN Strip(Tail(s))
        ELSE IF s[Len(s)] = " " THEN Strip(SubSeq(s, 1, Len(s) - 1))
        ELSE s
        : s \in {s_}} : TRUE

\* the placeholders of the HI and LO indicators, the limit under which a value
\* is taken for mmol/L and the factor to mg/dL
HiPlaceholder == 400
LoPlaceholder == 40
MmolLimit == 35
MgPerMmol == 18

\* the band of the import's statistics: 70 <= v <= 180
StatsLow == 70
StatsHigh == 180

\* round(value * 18, 1) for the double nearest to t / FloatScale, in units of
\* 1 / FloatScale
MgPerDl(t) ==
    round_to(RoundSig(LMul(Double(t, FloatScale), MgPerMmol)), 1) * (FloatScale \div 10)

\* (value, is_high, is_low) of a cell, value in units of 1 / FloatScale and None
\* when the cell holds no value.  float() of a text of digits, points, spaces
\* and the letters of UpperOf: a number, nan in any case, or ValueError.
parse_glucose_value(value_str) ==
    LET s == Strip(value_str)
    IN  IF s = << >> THEN <<None, FALSE, FALSE>>
        ELSE IF Upper(s) \in {<<"H", "I">>, <<"H", "I", "G", "H">>}
        THEN <<HiPlaceholder * FloatScale, TRUE, FALSE>>
        ELSE IF Upper(s) \in {<<"L", "O">>, <<"L", "O", "W">>}
        THEN <<LoPlaceholder * FloatScale, FALSE, TRUE>>
        ELSE IF Upper(s) = <<"N", "A", "N">> THEN <<NaN, FALSE, FALSE>>
        ELSE IF ~IsFloatText(s) THEN <<None, FALSE, FALSE>>
        ELSE LET value == IF FloatOf(s) < MmolLimit * FloatScale
                          THEN MgPerDl(FloatOf(s)) ELSE FloatOf(s)
             IN  <<value, value > StatsHigh * FloatScale, value < StatsLow * FloatScale>>

\* "YYYY-MM-DD HH:MM"
IsMinuteStamp(s) ==
    /\ Len(s) = 16
    /\ s[5] = "-" /\ s[8] = "-" /\ s[11] = " " /\ s[14] = ":"
    /\ \A i \in (1..16) \ {5, 8, 11, 14} : s[i] \in Digits

\* parse_timestamp(date_str), for a valid "YYYY-MM-DD HH:MM" and for texts that
\* none of the six formats matches: the isoformat of the first, the text itself
\* of the others
parse_timestamp(date_str) ==
    IF IsMinuteStamp(Strip(date_str))
    THEN SubSeq(Strip(date_str), 1, 10) \o <<"T">> \o SubSeq(Strip(date_str), 12, 16)
         \o <<":", "0", "0">>
    ELSE date_str

\* for col_name in ['historic_glucose', 'scan_glucose', 'glucose']: the parse of
\* the first cell, from the i-th on, that is not blank and holds a value
RECURSIVE CellValue(_, _)
CellValue(cells_, i_) ==
    CHOOSE result \in {
        IF i > Len(cells) THEN <<None, FALSE, FALSE>>
        ELSE IF Strip(cells[i]) # << >> /\ parse_glucose_value(cells[i])[1] # None
        THEN parse_glucose_value(cells[i])
        ELSE CellValue(cells, i + 1)
        : cells \in {cells_}, i \in {i_}} : TRUE

\* the readings of the rows from the i-th on, in the order of the rows: a row
\* is its timestamp cell and its glucose cells in the order historic, scan
RECURSIVE ReadingsOfRows(_, _)
ReadingsOfRows(rows_, i_) ==
    CHOOSE result \in {
        IF i > Len(rows) THEN << >>
        ELSE LET timestamp == parse_timestamp(rows[i].timestamp)
                 parsed == CellValue(rows[i].cells, 1)
             IN  (IF timestamp = << >> \/ parsed[1] = None THEN << >>
                  ELSE <<[timestamp |-> timestamp, value |-> parsed[1],
                          isHigh |-> parsed[2], isLow |-> parsed[3]]>>)
                 \o ReadingsOfRows(rows, i + 1)
        : rows \in {rows_}, i \in {i_}} : TRUE

\* list.sort(key=timestamp, reverse=True) is stable: r, which came after the
\* readings of done, goes behind those with a timestamp not less than its own
RECURSIVE InsertNewest(_, _)
InsertNewest(done_, r_) ==
    CHOOSE result \in {
        IF done = << >> THEN <<r>>
        ELSE IF StrLess(Head(done).timestamp, r.timestamp) THEN <<r>> \o done
        ELSE <<Head(done)>> \o InsertNewest(Tail(done), r)
        : done \in {done_}, r \in {r_}} : TRUE
RECURSIVE SortNewestFirst(_, _)
SortNewestFirst(readings_, n_) ==
    CHOOSE result \in {
        IF n = 0 THEN << >>
        ELSE InsertNewest(SortNewestFirst(readings, n - 1), readings[n])
        : readings \in {readings_}, n \in {n_}} : TRUE

import_csv(rows) ==
    SortNewestFirst(ReadingsOfRows(rows, 1), Len(ReadingsOfRows(rows, 1)))

\* min(values) and max(values) of the first n floats: the first one, replaced
\* by each later one that compares less (greater)
RECURSIVE FloatMin(_, _)
FloatMin(values_, n_) ==
    CHOOSE result \in {
        IF n = 1 THEN values[1]
        ELSE IF FloatLess(values[n], FloatMin(values, n - 1)) THEN values[n]
        ELSE FloatMin(values, n - 1)
        : values \in {values_}, n \in {n_}} : TRUE
RECURSIVE FloatMax(_, _)
FloatMax(values_, n_) ==
    CHOOSE result \in {
        IF n = 1 THEN values[1]
        ELSE IF FloatLess(FloatMax(values, n - 1), values[n]) THEN values[n]
        ELSE FloatMax(values, n - 1)
        : values \in {values_}, n \in {n_}} : TRUE

\* round(sum(values) / len(values), 1) in tenths, values in units of 1 / q
FloatAverage(values, q) ==
    IF NaN \in Range(values) THEN NaN ELSE RoundedMean(values, q, 1)

\* datetime.fromisoformat(timestamp) does not raise, for a timestamp that
\* parse_timestamp returned
IsIsoStamp(timestamp) == Len(timestamp) = 19 /\ timestamp[11] = "T"

\* the readings at or after the cutoff (now - days, as an isoformat text), all
\* of them when days is None
Filtered(readings, cutoff) ==
    IF cutoff = NoneObj THEN readings
    ELSE SelectSeq(readings, LAMBDA r : ~StrLess(r.timestamp, cutoff))

\* calculate_stats raises ValueError: days is given and a timestamp is no
\* isoformat text
StatsRaises(readings, cutoff) ==
    cutoff # NoneObj /\ \E i \in 1..Len(readings) : ~IsIsoStamp(readings[i].timestamp)

\* the statistics with an in-range band that ends at the daily summary's 140
calculate_stats_daily_band(readings, cutoff) ==
    LET values == [i \in 1..Len(Filtered(readings, cutoff)) |->
                      Filtered(readings, cutoff)[i].value]
        Count(P(_)) == Cardinality({i \in 1..Len(values) : P(values[i])})
    IN  IF values = << >> THEN EmptyDict
        ELSE [average |-> FloatAverage(values, FloatScale),
              min     |-> FloatMin(values, Len(values)),
              max     |-> FloatMax(values, Len(values)),
              count   |-> Len(values),
              inRange |-> Count(LAMBDA v : FloatLessEq(StatsLow * FloatScale, v)
                                           /\ FloatLessEq(v, GlucoseHigh * FloatScale)),
              high    |-> Count(LAMBDA v : FloatLess(StatsHigh * FloatScale, v)),
              low     |-> Count(LAMBDA v : FloatLess(v, StatsLow * FloatScale))]

\* calculate_stats(readings, days): average in tenths, min and max in units of
\* 1 / FloatScale
calculate_stats(readings, cutoff) ==
    LET values == [i \in 1..Len(Filtered(readings, cutoff)) |->
                      Filtered(readings, cutoff)[i].value]
        Count(P(_)) == Cardinality({i \in 1..Len(values) : P(values[i])})
    IN  IF values = << >> THEN EmptyDict
        ELSE [average |-> FloatAverage(values, FloatScale),
              min     |-> FloatMin(values, Len(values)),
              max     |-> FloatMax(values, Len(values)),
              count   |-> Len(values),
              inRange |-> Count(LAMBDA v : FloatLessEq(StatsLow * FloatScale, v)
                                           /\ FloatLessEq(v, StatsHigh * FloatScale)),
              high    |-> Count(LAMBDA v : FloatLess(StatsHigh * FloatScale, v)),
              low     |-> Count(LAMBDA v : FloatLess(v, StatsLow * FloatScale))]

\* the glucose sub-record of a day whose values are floats in units of 1 / q:
\* average and timeInRangePercent in tenths, min and max in units of 1 / q
FloatGlucoseSummary(values, q) ==
    LET within == Cardinality({i \in 1..Len(values) :
                                    /\ FloatLessEq(GlucoseLow * q, values[i])
                                    /\ FloatLessEq(values[i], GlucoseHigh * q)})
    IN  [average            |-> FloatAverage(values, q),
         min                |-> FloatMin(values, Len(values)),
         max                |-> FloatMax(values, Len(values)),
         readings           |-> Len(values),
         inRange            |-> within,
         timeInRangePercent |-> RoundHalfEven(within * 1000, Len(values))]

\* process_lingo_data of a document the import wrote: every reading has a value
process_imported(l) ==
    [date \in ReadingDates(l.history) |->
        [date |-> date,
         glucose |-> FloatGlucoseSummary(ReadingsOf(l.history, date, 1), FloatScale)]]

\* the most rows of an export
MaxRows == 2

\* the timestamp cell of a reading of day i at 08:00
CsvStamp(i) == DateOf(i) \o <<" ", "0", "8", ":", "0", "0">>

\* the rows of an export whose columns are the device timestamp, the historic
\* glucose and the scan glucose: one cell "100", "150", "180", "181", "HI",
\* "lo", "nan", "3.8" on day 1; "140" on day 2; a row with no timestamp; a row
\* whose timestamp matches no format; a blank historic cell before a scan
\* cell; a historic cell that holds no number before "High"
CsvRows ==
    {[timestamp |-> CsvStamp(1), cells |-> <<c>>] :
        c \in {<<"1", "0", "0">>, <<"1", "5", "0">>, <<"1", "8", "0">>,
               <<"1", "8", "1">>, <<"H", "I">>, <<"l", "o">>,
               <<"n", "a", "n">>, <<"3", ".", "8">>}}
    \cup {[timestamp |-> CsvStamp(2), cells |-> <<<<"1", "4", "0">>>>],
          [timestamp |-> << >>, cells |-> <<<<"1", "0", "0">>>>],
          [timestamp |-> <<"i", "n", "v", "a", "l", "i", "d">>,
           cells |-> <<<<"1", "4", "1">>>>],
          [timestamp |-> CsvStamp(2), cells |-> <<<<" ">>, <<"7", "0">>>>],
          [timestamp |-> CsvStamp(2),
           cells |-> <<<<"n", "a">>, <<"H", "i", "g", "h">>>>]}

\* now - timedelta(days) as an isoformat text: before day 2, or after it; and
\* NoneObj for a call without days
Cutoffs ==
    {NoneObj,
     DateOf(2) \o <<"T", "0", "0", ":", "0", "0", ":", "0", "0">>,
     DateOf(3) \o <<"T", "0", "0", ":", "0", "0", ":", "0", "0">>}

InitImport ==
    /\ pc = "csv"
    /\ csv_rows \in SeqsUpTo(CsvRows, MaxRows)
    /\ stats = EmptyDict
    /\ lingo = EmptyDict /\ glucose_daily = EmptyDict
    /\ garmin = EmptyDict /\ whoop = EmptyDict
    /\ garmin_daily = EmptyDict /\ whoop_daily = EmptyDict
    /\ daily_data = << >> /\ correlations = EmptyDict
    /\ pairs = << >> /\ scales = <<1, 1>> /\ coef = None
    /\ range_text = << >> /\ bounds_out = <<None, None>>
    /\ biomarkers_raw = EmptyDict /\ biomarkers = << >>
    /\ summary_stats = EmptyDict
    /\ err = ""
    /\ answers = EmptyDict /\ probed = << >> /\ API_BASE_URL = None
    /\ inputs = EmptyDict /\ output = EmptyDict

\* main of the import: import_csv; no readings end the run, and the readings
\* are the history of the document it goes on to write
ImportCsv ==
    /\ pc = "csv"
    /\ IF import_csv(csv_rows) = << >>
       THEN pc' = "no_readings" /\ UNCHANGED lingo
       ELSE pc' = "imported" /\ lingo' = [history |-> import_csv(csv_rows)]
    /\ UNCHANGED <<answers, probed, API_BASE_URL, inputs, output, csv_rows, stats,
                   late, unit, err, garmin, whoop, garmin_daily, whoop_daily,
                   glucose_daily, daily_data, correlations>>

\* one call of calculate_stats: the cutoff it was given and its result
CalculateStats ==
    /\ pc = "imported"
    /\ \E cutoff \in Cutoffs :
          /\ ~StatsRaises(lingo.history, cutoff)
          /\ stats' = [cutoff |-> cutoff,
                       result |-> calculate_stats(lingo.history, cutoff)]
    /\ pc' = "stats"
    /\ UNCHANGED <<answers, probed, API_BASE_URL, inputs, output, csv_rows,
                   late, raw, unit, err, garmin_daily, whoop_daily,
                   glucose_daily, daily_data, correlations>>

\* datetime.fromisoformat raises on a timestamp that parse_timestamp could not
\* parse
CalculateStatsRaises ==
    /\ pc = "imported"
    /\ \E cutoff \in Cutoffs : StatsRaises(lingo.history, cutoff)
    /\ err' = "ValueError"
    /\ pc' = "stats_raised"
    /\ UNCHANGED <<outer, late, raw, unit, garmin_daily, whoop_daily,
                   glucose_daily, daily_data, correlations>>

\* the consolidation reads the document the import wrote
ConsolidateImported ==
    /\ pc = "stats"
    /\ glucose_daily' = process_imported(lingo)
    /\ pc' = "consolidated"
    /\ UNCHANGED <<outer, late, raw, unit, err, garmin_daily, whoop_daily,
                   daily_data, correlations>>

NextImport ==
    ImportCsv \/ CalculateStats \/ CalculateStatsRaises \/ ConsolidateImported

SpecImport == InitImport /\ [][NextImport]_vars

\* the number of the values, in units of 1 / FloatScale, that are numbers from
\* lo to hi mg/dL, both ends included
InBand(values, lo, hi) ==
    Cardinality({i \in 1..Len(values) :
                    /\ values[i] # NaN
                    /\ lo * FloatScale <= values[i]
                    /\ values[i] <= hi * FloatScale})

\* the values of the imported readings, and of those of a date
ImportedValues == [i \in 1..Len(lingo.history) |-> lingo.history[i].value]
ImportedValuesOf(date) == ReadingsOf(lingo.history, date, 1)

\* the sum of inRange over the days of a normalizer result
RECURSIVE DailyInRange(_, _)
DailyInRange(daily, dates) ==
    IF dates = {} THEN 0
    ELSE LET d == CHOOSE x \in dates : TRUE
         IN  daily[d].glucose.inRange + DailyInRange(daily, dates \ {d})

\* C25: the two in-range bands are distinct per entry point: process_lingo_data
\* counts a reading in range iff 70 <= v <= 140, calculate_stats counts it in
\* range iff 70 <= v <= 180, so over the same readings the import's inRange
\* exceeds the sum of the daily inRange by the readings with 140 < v <= 180
C25_BandsDistinctPerEntryPoint ==
    pc = "consolidated" =>
        /\ \A date \in DOMAIN glucose_daily :
              glucose_daily[date].glucose.inRange
                  = InBand(ImportedValuesOf(date), 70, 140)
        /\ stats.cutoff = NoneObj =>
              /\ stats.result.inRange = InBand(ImportedValues, 70, 180)
              /\ stats.result.inRange
                     = DailyInRange(glucose_daily, DOMAIN glucose_daily)
                       + Cardinality({i \in 1..Len(ImportedValues) :
                                         /\ ImportedValues[i] # NaN
                                         /\ 140 * FloatScale < ImportedValues[i]
                                         /\ ImportedValues[i] <= 180 * FloatScale})

\* a reading of 150 and one of 180 mg/dL on a day: both in range for the
\* import, neither for the daily summary
C25_Witness ==
    /\ pc = "consolidated"
    /\ stats.cutoff = NoneObj
    /\ Range(ImportedValues) = {150 * FloatScale, 180 * FloatScale}
    /\ stats.result.inRange = 2
    /\ \A date \in DOMAIN glucose_daily : glucose_daily[date].glucose.inRange = 0

\* the readings calculate_stats kept, for the cutoff it was given
FilteredReadings == Filtered(lingo.history, stats.cutoff)

\* C29: the three classes of calculate_stats partition the readings: for every
\* non-empty filtered reading list inRange + high + low = count, high and low
\* are the numbers of readings flagged isHigh and isLow, and no reading is
\* flagged both
C29_ClassesPartitionReadings ==
    (pc \in {"stats", "consolidated"} /\ FilteredReadings # << >>) =>
        /\ stats.result.inRange + stats.result.high + stats.result.low
               = stats.result.count
        /\ stats.result.high
               = Cardinality({i \in 1..Len(FilteredReadings) : FilteredReadings[i].isHigh})
        /\ stats.result.low
               = Cardinality({i \in 1..Len(FilteredReadings) : FilteredReadings[i].isLow})
        /\ \A i \in 1..Len(FilteredReadings) :
              ~(FilteredReadings[i].isHigh /\ FilteredReadings[i].isLow)

\* C26: dateRange.start and dateRange.end are the least and the greatest date
\* of the merged records, both null when there is none; the merged records are
\* sorted, so start is the date of the first record and end that of the last,
\* and totalDays is the number of records
C26_DateRangeBounds ==
    (err = "" /\ pc \in {"summarized", "written"}) =>
        LET range == summary_stats.dateRange
            n == Len(daily_data)
        IN  /\ range.totalDays = n
            /\ n = 0 => range.start = NoneObj /\ range.end = NoneObj
            /\ n > 0 =>
                  /\ range.start = daily_data[1].date
                  /\ range.end = daily_data[n].date
                  /\ \A i \in 1..n :
                        /\ TruthyStr(daily_data[i].date)
                        /\ ~StrLess(daily_data[i].date, range.start)
                        /\ ~StrLess(range.end, daily_data[i].date)

\* a written run with two days, and the range running from one to the other
C26_Witness ==
    /\ pc = "written"
    /\ Len(daily_data) = 2
    /\ summary_stats.dateRange.start = DateOf(1)
    /\ summary_stats.dateRange.end = DateOf(2)
    /\ summary_stats.dateRange.totalDays = 2

\* the merger's result, from the normalizers' results
Merged == merge_daily_data(garmin_daily, glucose_daily, whoop_daily)

\* C28: calculate_correlations and generate_summary_stats leave the merged
\* sequence as the merger returned it, so each result is that of the function
\* on the merger's result whichever ran first, and dailyData of the output
\* document is the merger's result
C28_MergedSequenceReadOnly ==
    /\ [][pc # "merge" => daily_data' = daily_data]_vars
    /\ [](pc \in {"merged", "correlated", "summarized", "written"}
              => daily_data = Merged)
    /\ []((err = "" /\ pc \in {"summarized", "written"}) =>
              /\ correlations = calculate_correlations(Merged)
              /\ summary_stats
                     = generate_summary_stats(Merged, biomarkers,
                                              summary_stats.biomarkers.categories))
    /\ [](pc = "written" => output.dailyData = Merged)

\* a written run over two days with data of the tracker
C28_Witness ==
    /\ pc = "written"
    /\ Len(daily_data) = 2
    /\ output.dailyData = daily_data
    /\ summary_stats.steps.daysWithData = 2
    /\ DOMAIN correlations # {}

\* no port of API_PORTS answers with status 200
NoServer == \A p \in DOMAIN answers : answers[p] # "200"

\* the search is over
Searched == pc \notin {"probe"}

\* the document of a run without the server: no record has data of the
\* recovery tracker, there is no lab result, and the two flags are false
WrittenWithoutServer ==
    /\ pc = "written"
    /\ \A i \in 1..Len(output.dailyData) : output.dailyData[i].whoop = EmptyDict
    /\ output.biomarkers = << >>
    /\ ~output.metadata.sources.whoop
    /\ ~output.metadata.sources.biomarkers
    /\ DOMAIN output.correlations # {}
    /\ output.summary = summary_stats

====
